---- MODULE Spec2Model ----
(***************************************************************************)
(* A model of the ign-go request-dispatch layer (src/router.go, second     *)
(* revision, lines 447-1000): the route-table compiler NewRouter, the      *)
(* CORS preflight index (corsMap / sortedREs), the synthesized OPTIONS     *)
(* handlers and the per-route middleware pipeline.                         *)
(*                                                                         *)
(* Go strings are sequences of one-character strings, so that the          *)
(* URI -> regular expression compilation, len(), strings.Count and the     *)
(* regular expression match are computed the way the code computes them.   *)
(* Route indices are 0-based as in Go; TLA+ sequences are 1-based.         *)
(***************************************************************************)
EXTENDS Integers, Sequences, FiniteSets, TLC

VARIABLES
  routes,          \* the route table handed to the latest NewRouter call
  muxRoutes,       \* the routes registered on the latest *mux.Router, in order
  allowedOptions,  \* per route of the table: the verbs createRouteHelper appended
  corsMap,         \* package variable: compiled pattern -> route index
  sortedREs,       \* package variable: the keys of corsMap, sorted
  Db,              \* gServer.Db: "nil", "open" or "half" (returned with an error)
  CSRFKey,         \* gServer.CSRFKey: "" or a key
  req,             \* the request being served, and its response so far
  pag,             \* the paginated query of a business handler, step by step
  boot,            \* Server.dbInit, step by step
  util,            \* a call of a function of utility.go: its input and its result
  flights          \* the requests net/http serves concurrently, each in its goroutine

vars == <<routes, muxRoutes, allowedOptions, corsMap, sortedREs, Db, CSRFKey, req, pag, boot, util, flights>>

-----------------------------------------------------------------------------
(* Strings                                                                 *)

IsPrefix(p, s) == Len(p) <= Len(s) /\ SubSeq(s, 1, Len(p)) = p

\* strings.Count(s, sub): the number of non-overlapping occurrences of sub
RECURSIVE Count(_, _)
Count(s, sub) ==
  IF Len(s) < Len(sub) THEN 0
  ELSE IF IsPrefix(sub, s) THEN 1 + Count(SubSeq(s, Len(sub) + 1, Len(s)), sub)
  ELSE Count(Tail(s), sub)

\* strings.Replace(uriPath, ".", "\\.", -1)
RECURSIVE EscapeDots(_)
EscapeDots(s) ==
  IF s = <<>> THEN <<>>
  ELSE (IF Head(s) = "." THEN <<"\\", ".">> ELSE <<Head(s)>>) \o EscapeDots(Tail(s))

\* the position of the first "}" of s at or after from, 0 when there is none
RECURSIVE IndexOfClose(_, _)
IndexOfClose(s, from) ==
  IF from > Len(s) THEN 0
  ELSE IF s[from] = "}" THEN from
  ELSE IndexOfClose(s, from + 1)

\* the replacement text of the placeholders
WildcardRE == <<"[", "^", "/", "]", "+">>

\* regexp.MustCompile("{.+?}").ReplaceAllString(s, "[^/]+"): leftmost matches,
\* each an opening brace, one or more characters (as few as possible), and a
\* closing brace
RECURSIVE ReplacePlaceholders(_)
ReplacePlaceholders(s) ==
  IF s = <<>> THEN <<>>
  ELSE IF Head(s) = "{" /\ IndexOfClose(s, 3) # 0
       THEN WildcardRE \o ReplacePlaceholders(SubSeq(s, IndexOfClose(s, 3) + 1, Len(s)))
       ELSE <<Head(s)>> \o ReplacePlaceholders(Tail(s))

\* reString of createRouteHelper: the pattern compiled from a concrete path
reString(uriPath) == ReplacePlaceholders(EscapeDots(uriPath))

-----------------------------------------------------------------------------
(* Regular expressions over the characters the compiled patterns use       *)

\* regexp.MustCompile(key): the pattern as a sequence of items; "[^/]+" is
\* one or more characters other than "/", "\c" is the character c, "." is
\* any character, "c+" is one or more of the character c, every other
\* character is itself
RECURSIVE ParseRE(_)
ParseRE(k) ==
  IF k = <<>> THEN <<>>
  ELSE IF IsPrefix(WildcardRE, k)
       THEN <<[kind |-> "wild", ch |-> ""]>> \o ParseRE(SubSeq(k, Len(WildcardRE) + 1, Len(k)))
  ELSE IF Head(k) = "\\" /\ Len(k) >= 2
       THEN <<[kind |-> "lit", ch |-> k[2]]>> \o ParseRE(SubSeq(k, 3, Len(k)))
  ELSE IF Head(k) = "."
       THEN <<[kind |-> "any", ch |-> ""]>> \o ParseRE(Tail(k))
  ELSE IF Len(k) >= 2 /\ k[2] = "+"
       THEN <<[kind |-> "plus", ch |-> Head(k)]>> \o ParseRE(SubSeq(k, 3, Len(k)))
  ELSE <<[kind |-> "lit", ch |-> Head(k)]>> \o ParseRE(Tail(k))

\* the number of characters other than "/" of path from position pos on
RECURSIVE Run(_, _)
Run(path, pos) ==
  IF pos > Len(path) \/ path[pos] = "/" THEN 0 ELSE 1 + Run(path, pos + 1)

\* the number of characters ch of path from position pos on
RECURSIVE RunOf(_, _, _)
RunOf(path, pos, ch) ==
  IF pos > Len(path) \/ path[pos] # ch THEN 0 ELSE 1 + RunOf(path, pos + 1, ch)

\* The end (the position after the last matched character) of the match of
\* items that Go's leftmost-first semantics prefers among those starting at
\* pos, 0 when none starts there.  A greedy "[^/]+" tries its longest run
\* first.
RECURSIVE MatchEnd(_, _, _)
RECURSIVE GreedyEnd(_, _, _, _)
MatchEnd(items, path, pos) ==
  IF items = <<>> THEN pos
  ELSE LET it == Head(items) IN
    IF it.kind = "wild" THEN GreedyEnd(Tail(items), path, pos, Run(path, pos))
    ELSE IF it.kind = "plus" THEN GreedyEnd(Tail(items), path, pos, RunOf(path, pos, it.ch))
    ELSE IF pos > Len(path) THEN 0
    ELSE IF it.kind = "any" \/ path[pos] = it.ch THEN MatchEnd(Tail(items), path, pos + 1)
    ELSE 0
GreedyEnd(rest, path, pos, n) ==
  IF n < 1 THEN 0
  ELSE LET e == MatchEnd(rest, path, pos + n) IN
    IF e # 0 THEN e ELSE GreedyEnd(rest, path, pos, n - 1)

\* a mutant of MatchesCompleteURL: a match of the beginning of the path will do
MatchesCompleteURL_Prefix(key, path) == MatchEnd(ParseRE(key), path, 1) # 0

\* regexp.MustCompile(key).FindString(path) == path, for a path that is not
\* empty: the leftmost match starts at the first character and ends at the last
MatchesCompleteURL(key, path) == MatchEnd(ParseRE(key), path, 1) = Len(path) + 1

\* whether some match of items covers path from pos to its end
RECURSIVE MatchFull(_, _, _)
MatchFull(items, path, pos) ==
  IF items = <<>> THEN pos = Len(path) + 1
  ELSE LET it == Head(items) IN
    IF it.kind = "wild"
    THEN \E n \in 1..Run(path, pos) : MatchFull(Tail(items), path, pos + n)
    ELSE pos <= Len(path) /\ path[pos] = it.ch /\ MatchFull(Tail(items), path, pos + 1)

\* mux's Path(tpl): each {name} is a variable matching [^/]+, every other
\* character is quoted
RECURSIVE MuxTemplate(_)
MuxTemplate(tpl) ==
  IF tpl = <<>> THEN <<>>
  ELSE IF Head(tpl) = "{" /\ IndexOfClose(tpl, 2) # 0
       THEN <<[kind |-> "wild", ch |-> ""]>>
            \o MuxTemplate(SubSeq(tpl, IndexOfClose(tpl, 2) + 1, Len(tpl)))
       ELSE <<[kind |-> "lit", ch |-> Head(tpl)]>> \o MuxTemplate(Tail(tpl))

\* mux matches a path template against the whole request path
MuxPathMatch(tpl, path) == MatchFull(MuxTemplate(tpl), path, 1)

-----------------------------------------------------------------------------
(* The preflight index                                                     *)

\* a mutant of Less: the order of sortRE is reversed
Less_Reversed(a, b) ==
  LET ci == Count(a, WildcardRE)
      cj == Count(b, WildcardRE)
  IN IF ci = cj THEN Len(a) < Len(b) ELSE ci > cj

\* sortRE.Less on two patterns
Less(a, b) ==
  LET ci == Count(a, WildcardRE)
      cj == Count(b, WildcardRE)
  IN IF ci = cj THEN Len(a) > Len(b) ELSE ci < cj

\* getSortedREs(m): the keys of m in an order sort.Sort can leave them in.
\* The keys come out of the map in any order and sort.Sort is not stable, so
\* every arrangement without an inversion of Less is a possible result.
RECURSIVE SortedArrangements(_)
SortedArrangements(keys) ==
  IF keys = {} THEN {<<>>}
  ELSE UNION { { <<k>> \o rest : rest \in SortedArrangements(keys \ {k}) } :
               k \in { x \in keys : \A y \in keys : ~Less(y, x) } }

getSortedREs(m) == SortedArrangements(DOMAIN m)

\* corsMap[reString] = routeIndex
CorsStore(m, k, v) == [x \in (DOMAIN m) \cup {k} |-> IF x = k THEN v ELSE m[x]]

\* the scan of the OPTIONS handler: the position in sorted of the first
\* pattern that matches the complete path, 0 when none does
RECURSIVE FirstMatch(_, _, _)
FirstMatch(sorted, path, i) ==
  IF i > Len(sorted) THEN 0
  ELSE IF MatchesCompleteURL(sorted[i], path) THEN i
  ELSE FirstMatch(sorted, path, i + 1)

-----------------------------------------------------------------------------
(* Route tables                                                            *)

NoExt == <<>>
JsonExt == <<".", "j">>

\* /things/{id}: an open GET in two formats and a secure POST
Things ==
  [Name |-> "things", URI |-> <<"/", "t", "/", "{", "i", "}">>,
   Methods |-> <<[Type |-> "GET", Handlers |-> <<NoExt, JsonExt>>]>>,
   SecureMethods |-> <<[Type |-> "POST", Handlers |-> <<NoExt>>]>>,
   IgnoreCSRF |-> FALSE]

\* /things/special: a literal path that /things/{id} also matches
Special ==
  [Name |-> "special", URI |-> <<"/", "t", "/", "s">>,
   Methods |-> <<[Type |-> "GET", Handlers |-> <<NoExt, JsonExt>>]>>,
   SecureMethods |-> <<>>,
   IgnoreCSRF |-> FALSE]

\* /{owner}/special: as many wildcards and as long a pattern as /things/{id};
\* declared as a NoCSRFRoute
Owned ==
  [Name |-> "owned", URI |-> <<"/", "{", "o", "}", "/", "s">>,
   Methods |-> <<[Type |-> "POST", Handlers |-> <<NoExt>>]>>,
   SecureMethods |-> <<>>,
   IgnoreCSRF |-> TRUE]

\* /things/{name}: another route with the name and the compiled pattern of
\* Things
ByName ==
  [Name |-> "things", URI |-> <<"/", "t", "/", "{", "n", "}">>,
   Methods |-> <<>>,
   SecureMethods |-> <<[Type |-> "GET", Handlers |-> <<NoExt>>]>>,
   IgnoreCSRF |-> FALSE]

RouteCatalog == {Things, Special, Owned, ByName}

\* /c+: a path with a character that means something in a regular expression
Plus ==
  [Name |-> "plus", URI |-> <<"/", "c", "+">>,
   Methods |-> <<[Type |-> "GET", Handlers |-> <<NoExt>>]>>,
   SecureMethods |-> <<>>,
   IgnoreCSRF |-> FALSE]

\* the longest route table
MaxRoutes == 2

\* the route tables NewRouter is given: up to MaxRoutes different routes, in
\* any order
Tables ==
  UNION { { t \in [1..n -> RouteCatalog] : \A i, j \in 1..n : i # j => t[i] # t[j] } :
          n \in 1..MaxRoutes }

\* the request paths
Paths ==
  { <<"/", "t", "/", "s">>, <<"/", "t", "/", "x">>,
    <<"/", "t", "/", "s", ".", "j">>, <<"/", "t", "/", "s", "x", "j">>,
    <<"/", "x", "/", "s">>, <<"/", "u">> }

Verbs == {"GET", "POST"}

-----------------------------------------------------------------------------
(* Error envelopes                                                         *)

\* the error codes of the taxonomy
ErrorNoDatabase == 1000
ErrorDbDelete == 1001
ErrorDbSave == 1002
ErrorIDNotFound == 1003
ErrorNameNotFound == 1004
ErrorFileNotFound == 1005
ErrorMarshalJSON == 2000
ErrorUnmarshalJSON == 2001
ErrorMarshalProto == 2500
ErrorIDNotInRequest == 3000
ErrorIDWrongFormat == 3001
ErrorNameWrongFormat == 3002
ErrorPayloadEmpty == 3003
ErrorForm == 3004
ErrorUnexpectedID == 3005
ErrorUnknownSuffix == 3006
ErrorUserNotInRequest == 3007
ErrorUserUnknown == 3008
ErrorMissingField == 3009
ErrorOwnerNotInRequest == 3010
ErrorModelNotInRequest == 3011
ErrorAuthNoUser == 4000
ErrorAuthJWTInvalid == 4001
ErrorUnauthorized == 4002
ErrorZipNotAvailable == 100000
ErrorResourceExists == 100001
ErrorCreatingDir == 100002
ErrorCreatingRepo == 100003
ErrorCreatingFile == 100004
ErrorUnzipping == 100005
ErrorNonExistentResource == 100006
ErrorRepo == 100007
ErrorRemovingDir == 100008
ErrorFileTree == 100009

ErrorCodes ==
  { ErrorNoDatabase, ErrorDbDelete, ErrorDbSave, ErrorIDNotFound,
    ErrorNameNotFound, ErrorFileNotFound, ErrorMarshalJSON,
    ErrorUnmarshalJSON, ErrorMarshalProto, ErrorIDNotInRequest,
    ErrorIDWrongFormat, ErrorNameWrongFormat, ErrorPayloadEmpty, ErrorForm,
    ErrorUnexpectedID, ErrorUnknownSuffix, ErrorUserNotInRequest,
    ErrorUserUnknown, ErrorMissingField, ErrorOwnerNotInRequest,
    ErrorModelNotInRequest, ErrorAuthNoUser, ErrorAuthJWTInvalid,
    ErrorUnauthorized, ErrorZipNotAvailable, ErrorResourceExists,
    ErrorCreatingDir, ErrorCreatingRepo, ErrorCreatingFile, ErrorUnzipping,
    ErrorNonExistentResource, ErrorRepo, ErrorRemovingDir, ErrorFileTree }

\* ErrorMessageOK()
ErrorMessageOK == [ErrCode |-> 0, StatusCode |-> 200, Msg |-> "", BaseError |-> <<>>]

\* ErrorMessage(err)
ErrorMessage(err) ==
  CASE err = ErrorNoDatabase ->
         [ErrCode |-> ErrorNoDatabase, StatusCode |-> 503,
          Msg |-> "Unable to connect to the database", BaseError |-> <<>>]
    [] err = ErrorDbDelete ->
         [ErrCode |-> ErrorDbDelete, StatusCode |-> 500,
          Msg |-> "Unable to remove resource from the database", BaseError |-> <<>>]
    [] err = ErrorDbSave ->
         [ErrCode |-> ErrorDbSave, StatusCode |-> 500,
          Msg |-> "Unable to save resource into the database", BaseError |-> <<>>]
    [] err = ErrorIDNotFound ->
         [ErrCode |-> ErrorIDNotFound, StatusCode |-> 404,
          Msg |-> "Requested id not found on server", BaseError |-> <<>>]
    [] err = ErrorNameNotFound ->
         [ErrCode |-> ErrorNameNotFound, StatusCode |-> 404,
          Msg |-> "Requested name not found on server", BaseError |-> <<>>]
    [] err = ErrorFileNotFound ->
         [ErrCode |-> ErrorFileNotFound, StatusCode |-> 404,
          Msg |-> "Requested file not found on server", BaseError |-> <<>>]
    [] err = ErrorMarshalJSON ->
         [ErrCode |-> ErrorMarshalJSON, StatusCode |-> 500,
          Msg |-> "Unable to marshal the response into a JSON", BaseError |-> <<>>]
    [] err = ErrorUnmarshalJSON ->
         [ErrCode |-> ErrorUnmarshalJSON, StatusCode |-> 400,
          Msg |-> "Unable to decode JSON payload included in the request", BaseError |-> <<>>]
    [] err = ErrorMarshalProto ->
         [ErrCode |-> ErrorMarshalProto, StatusCode |-> 500,
          Msg |-> "Unable to marshal the response into a protobuf", BaseError |-> <<>>]
    [] err = ErrorIDNotInRequest ->
         [ErrCode |-> ErrorIDNotInRequest, StatusCode |-> 400,
          Msg |-> "ID not present in request", BaseError |-> <<>>]
    [] err = ErrorOwnerNotInRequest ->
         [ErrCode |-> ErrorOwnerNotInRequest, StatusCode |-> 400,
          Msg |-> "Owner name not present in request", BaseError |-> <<>>]
    [] err = ErrorModelNotInRequest ->
         [ErrCode |-> ErrorModelNotInRequest, StatusCode |-> 400,
          Msg |-> "Model name not present in request", BaseError |-> <<>>]
    [] err = ErrorIDWrongFormat ->
         [ErrCode |-> ErrorIDWrongFormat, StatusCode |-> 400,
          Msg |-> "ID in request is in an invalid format", BaseError |-> <<>>]
    [] err = ErrorNameWrongFormat ->
         [ErrCode |-> ErrorNameWrongFormat, StatusCode |-> 400,
          Msg |-> "Name in request is in an invalid format", BaseError |-> <<>>]
    [] err = ErrorPayloadEmpty ->
         [ErrCode |-> ErrorPayloadEmpty, StatusCode |-> 400,
          Msg |-> "Payload empty in the request", BaseError |-> <<>>]
    [] err = ErrorForm ->
         [ErrCode |-> ErrorForm, StatusCode |-> 400,
          Msg |-> "Missing field in the multipart form", BaseError |-> <<>>]
    [] err = ErrorUnexpectedID ->
         [ErrCode |-> ErrorUnexpectedID, StatusCode |-> 400,
          Msg |-> "Unexpected id included in your request", BaseError |-> <<>>]
    [] err = ErrorUnknownSuffix ->
         [ErrCode |-> ErrorUnknownSuffix, StatusCode |-> 400,
          Msg |-> "Unknown suffix requested", BaseError |-> <<>>]
    [] err = ErrorUserNotInRequest ->
         [ErrCode |-> ErrorUserNotInRequest, StatusCode |-> 400,
          Msg |-> "User or team not present in the request", BaseError |-> <<>>]
    [] err = ErrorUserUnknown ->
         [ErrCode |-> ErrorUserUnknown, StatusCode |-> 400,
          Msg |-> "Provided user or team does not exist on the server", BaseError |-> <<>>]
    [] err = ErrorMissingField ->
         [ErrCode |-> ErrorMissingField, StatusCode |-> 400,
          Msg |-> "One or more required fields are missing", BaseError |-> <<>>]
    [] err = ErrorAuthNoUser ->
         [ErrCode |-> ErrorAuthNoUser, StatusCode |-> 403,
          Msg |-> "No user in server with the claimed identity", BaseError |-> <<>>]
    [] err = ErrorAuthJWTInvalid ->
         [ErrCode |-> ErrorAuthJWTInvalid, StatusCode |-> 403,
          Msg |-> "Unable to process user ID from the JWT included in request", BaseError |-> <<>>]
    [] err = ErrorUnauthorized ->
         [ErrCode |-> ErrorAuthJWTInvalid, StatusCode |-> 401,
          Msg |-> "Unauthorized request", BaseError |-> <<>>]
    [] err = ErrorZipNotAvailable ->
         [ErrCode |-> ErrorZipNotAvailable, StatusCode |-> 503,
          Msg |-> "Zip file not available for this resource", BaseError |-> <<>>]
    [] err = ErrorResourceExists ->
         [ErrCode |-> ErrorResourceExists, StatusCode |-> 409,
          Msg |-> "A resource with the same id already exists", BaseError |-> <<>>]
    [] err = ErrorCreatingDir ->
         [ErrCode |-> ErrorCreatingDir, StatusCode |-> 500,
          Msg |-> "Unable to create a new directory for the resource", BaseError |-> <<>>]
    [] err = ErrorCreatingRepo ->
         [ErrCode |-> ErrorCreatingRepo, StatusCode |-> 500,
          Msg |-> "Unable to create a new repository for the resource", BaseError |-> <<>>]
    [] err = ErrorCreatingFile ->
         [ErrCode |-> ErrorCreatingFile, StatusCode |-> 500,
          Msg |-> "Unable to create a new file for the resource", BaseError |-> <<>>]
    [] err = ErrorUnzipping ->
         [ErrCode |-> ErrorUnzipping, StatusCode |-> 400,
          Msg |-> "Unable to unzip a file", BaseError |-> <<>>]
    [] err = ErrorNonExistentResource ->
         [ErrCode |-> ErrorNonExistentResource, StatusCode |-> 503,
          Msg |-> "Unable to find the requested resource", BaseError |-> <<>>]
    [] err = ErrorRepo ->
         [ErrCode |-> ErrorRepo, StatusCode |-> 503,
          Msg |-> "Unable to process repository command", BaseError |-> <<>>]
    [] err = ErrorRemovingDir ->
         [ErrCode |-> ErrorRemovingDir, StatusCode |-> 500,
          Msg |-> "Unable to remove a resource directory", BaseError |-> <<>>]
    [] err = ErrorFileTree ->
         [ErrCode |-> ErrorFileTree, StatusCode |-> 500,
          Msg |-> "Unable to get files from model", BaseError |-> <<>>]
    [] OTHER -> ErrorMessageOK

\* NewErrorMessageWithBase(err, base): base is <<>> (nil) or <<the root cause>>
NewErrorMessageWithBase(err, base) == [ErrorMessage(err) EXCEPT !.BaseError = base]

-----------------------------------------------------------------------------
(* Requests and responses                                                  *)

\* no request: the zero values of everything a request and its response hold
IdleReq ==
  [pc |-> "idle",        \* idle, run, unwind, done, crashed
   method |-> "", path |-> <<>>,
   cred |-> "",          \* Authorization: none, invalid, valid
   tok |-> "",           \* X-CSRF-Token of the request: none, bad, good
   route |-> 0,          \* the position in muxRoutes of the matched route
   pos |-> 0,            \* the stage of its chain that runs next
   stages |-> <<>>,      \* the stages entered so far, in order
   short |-> "",         \* the stage that returned without calling next
   outcome |-> "",       \* what the business handler did
   panicking |-> FALSE,  \* a panic is unwinding the chain
   status |-> 0,         \* the status line sent, 0 when none is yet
   hdrs |-> {},          \* the names of the response headers
   allow |-> <<>>,       \* the value of the Allow header
   body |-> <<>>,        \* what was written to the body, in order
   writes |-> 0,         \* the responses written: http.Error calls and handler output
   log |-> <<>>,         \* the entries of the access log for this request
   err |-> 0,            \* the code of the error the handler returned, 0 for nil
   base |-> <<>>,        \* the root cause the handler wrapped in it, <<>> for nil
   json |-> <<>>,        \* the JSON objects of the error bodies, in order
   errlog |-> <<>>,      \* what reportJSONError logged, in order
   wrapper |-> "",       \* the wrapperField of the TypeJSONResult that served it
   result |-> <<>>]      \* the result its handler returned, <<>> for none

\* http.Error(w, text, code): two headers, the status line unless one was
\* sent already, and the text
httpError(r, kind, code, status) ==
  [r EXCEPT !.hdrs = @ \cup {"Content-Type", "X-Content-Type-Options"},
            !.status = IF @ = 0 THEN status ELSE @,
            !.body = Append(@, [kind |-> kind, code |-> code]),
            !.writes = @ + 1]

\* json.Marshal(errMsg) with the tags of ErrMsg: errcode, msg; StatusCode and
\* BaseError are tagged "-"
Marshal_WithBase(errMsg) ==
  [errcode |-> errMsg.ErrCode, msg |-> errMsg.Msg, BaseError |-> errMsg.BaseError]

Marshal(errMsg) == [errcode |-> errMsg.ErrCode, msg |-> errMsg.Msg]

\* reportJSONError(w, errMsg): logs the envelope and its base error, then
\* http.Error with the JSON of the envelope and its StatusCode
reportJSONError(r, errMsg) ==
  LET logged == <<[code |-> errMsg.ErrCode, msg |-> errMsg.Msg]>>
                  \o (IF errMsg.BaseError # <<>> THEN <<[base |-> errMsg.BaseError[1]]>> ELSE <<>>)
      output == Marshal(errMsg)
  IN [httpError(r, "errmsg", output.errcode, errMsg.StatusCode)
        EXCEPT !.json = Append(@, output), !.errlog = @ \o logged]

CORSHeaders ==
  {"Access-Control-Allow-Methods", "Access-Control-Allow-Credentials",
   "Access-Control-Allow-Headers", "Access-Control-Allow-Origin",
   "Access-Control-Expose-Headers"}

\* addCORSheaders(w)
addCORSheaders(hdrs) == hdrs \cup CORSHeaders

\* dbInit has not been called
IdleBoot ==
  [pc |-> "idle",       \* idle, loop, after (the loop), returned
   testv |-> "",        \* the flag test.v: absent, false, true
   MaxOpenConns |-> 0,  \* s.DbConfig.MaxOpenConns
   i |-> 0,             \* the loop variable
   err |-> <<>>,        \* err: <<>> for nil
   outcomes |-> <<>>,   \* what each gorm.Open call did, in order
   LogMode |-> "",      \* the argument of s.Db.LogMode, "" when not called
   poolSize |-> 0,      \* the argument of SetMaxOpenConns, 0 when not called
   ret |-> <<>>]        \* what dbInit returned: <<"nil">> or <<the error>>

\* the goroutines that serve concurrent requests
Flights == {"a", "b"}

\* a goroutine that serves no request yet: its request, and what the
\* environment will make of it (a redirect to HTTPS, the handler's outcome)
IdleFlight == [r |-> IdleReq, redirect |-> FALSE, outcome |-> ""]

\* no function of utility.go has been called
IdleUtil == [pc |-> "idle", input |-> <<>>, got |-> <<>>]

\* no paginated query has been started
IdlePag ==
  [pc |-> "idle", query |-> <<>>, request |-> <<>>, err |-> <<>>, result |-> <<>>,
   headers |-> <<>>,
   sql |-> <<>>]   \* the limits and offsets PaginateQuery gave the query

-----------------------------------------------------------------------------
(* NewRouter                                                               *)

\* a mutant of authMiddleware: the optional middleware guards secure methods
authMiddleware_Optional(isSecure) == "jwtOptional"

\* the authentication middleware createRouteHelper picks
authMiddleware(isSecure) == IF isSecure THEN "jwtRequired" ELSE "jwtOptional"

\* a mutant of negroniChain: the precondition check follows the CORS headers
negroniChain_DBLate(auth) ==
  <<"panicRecovery", "secure", "setCSRFToken", auth, "addCORSheaders", "requireDB",
    "handler">>

\* negroni.New(...): the middlewares of a verb route, outermost first
negroniChain(auth) ==
  <<"panicRecovery", "secure", "setCSRFToken", "requireDB", auth, "addCORSheaders",
    "handler">>

\* csrf.Protect wraps the negroni chain when a key is configured and the route
\* does not opt out; logger wraps everything
wrapChain(chain, key, ignoreCSRF) ==
  <<"logger">> \o (IF key # "" /\ ~ignoreCSRF THEN <<"csrfProtect">> ELSE <<>>) \o chain

\* the createRouteHelper calls of NewRouter, in order: per route its Methods,
\* then its SecureMethods, each with every format handler
RECURSIVE FormatCalls(_, _, _, _)
FormatCalls(routeIndex, methodType, isSecure, handlers) ==
  IF handlers = <<>> THEN <<>>
  ELSE <<[routeIndex |-> routeIndex, methodType |-> methodType, isSecure |-> isSecure,
          ext |-> Head(handlers)]>>
       \o FormatCalls(routeIndex, methodType, isSecure, Tail(handlers))

RECURSIVE MethodCalls(_, _, _)
MethodCalls(routeIndex, methods, isSecure) ==
  IF methods = <<>> THEN <<>>
  ELSE FormatCalls(routeIndex, Head(methods).Type, isSecure, Head(methods).Handlers)
       \o MethodCalls(routeIndex, Tail(methods), isSecure)

RECURSIVE RouteCalls(_, _)
RouteCalls(table, routeIndex) ==
  IF routeIndex >= Len(table) THEN <<>>
  ELSE MethodCalls(routeIndex, table[routeIndex + 1].Methods, FALSE)
       \o MethodCalls(routeIndex, table[routeIndex + 1].SecureMethods, TRUE)
       \o RouteCalls(table, routeIndex + 1)

\* createRouteHelper on the build so far, b = [mux, allowed, cors]: the verb
\* route and the OPTIONS route registered on the router, the verb appended to
\* the route's allowedOptions, the compiled pattern stored in corsMap
createRouteHelper(b, table, call, key) ==
  LET route == table[call.routeIndex + 1]
      uriPath == route.URI \o call.ext
      verbRoute ==
        [method |-> call.methodType, path |-> uriPath, name |-> <<route.Name, call.ext>>,
         routeIndex |-> call.routeIndex, isSecure |-> call.isSecure, ext |-> call.ext,
         chain |-> wrapChain(negroniChain(authMiddleware(call.isSecure)), key,
                             route.IgnoreCSRF)]
      optionsRoute ==
        [verbRoute EXCEPT !.method = "OPTIONS", !.chain = <<>>]
  IN [mux |-> b.mux \o <<verbRoute, optionsRoute>>,
      allowed |-> [b.allowed EXCEPT ![call.routeIndex + 1] = Append(@, call.methodType)],
      cors |-> CorsStore(b.cors, reString(uriPath), call.routeIndex)]

RECURSIVE BuildRoutes(_, _, _, _)
BuildRoutes(b, table, calls, key) ==
  IF calls = <<>> THEN b
  ELSE BuildRoutes(createRouteHelper(b, table, Head(calls), key), table, Tail(calls), key)

\* NewRouter(table): a new router and new allowedOptions; corsMap is the
\* package variable and keeps what earlier calls stored in it
NewRouterFrom(table) ==
  LET b == BuildRoutes([mux |-> <<>>, allowed |-> [i \in 1..Len(table) |-> <<>>],
                        cors |-> corsMap],
                       table, RouteCalls(table, 0), CSRFKey)
  IN /\ routes' = table
     /\ muxRoutes' = b.mux
     /\ allowedOptions' = b.allowed
     /\ corsMap' = b.cors
     /\ sortedREs' \in getSortedREs(b.cors)
     /\ req' = IdleReq
     /\ UNCHANGED <<Db, CSRFKey, pag, boot, util, flights>>

\* no request is being served
Quiet == req.pc \in {"idle", "done", "crashed"}

\* NewRouter is called while the server is set up, before it serves requests
NewRouter ==
  /\ req.pc = "idle"
  /\ \E table \in Tables : NewRouterFrom(table)

-----------------------------------------------------------------------------
(* Dispatch and the OPTIONS handlers                                       *)

\* mux.Router.ServeHTTP: the position of the first registered route whose
\* method and path template match, 0 when none does
RECURSIVE MuxMatch(_, _, _, _)
MuxMatch(registered, method, path, i) ==
  IF i > Len(registered) THEN 0
  ELSE IF registered[i].method = method /\ MuxPathMatch(registered[i].path, path) THEN i
  ELSE MuxMatch(registered, method, path, i + 1)

\* the index the OPTIONS handler resolves path to with the sorted list and
\* the map given, -1 when no pattern matches
ResolveIndex(sorted, m, path) ==
  LET hit == FirstMatch(sorted, path, 1)
  IN IF hit = 0 THEN -1 ELSE m[sorted[hit]]

\* the OPTIONS handler registered for muxRoutes[at], serving path
OptionsHandler(r, at, path) ==
  LET index == ResolveIndex(sortedREs, corsMap, path)
  IN IF index = -1
     THEN [reportJSONError(r, ErrorMessage(ErrorNameNotFound)) EXCEPT !.pc = "done"]
     ELSE IF index >= Len(routes)
     THEN \* (*routes)[index] panics: index out of range
          [r EXCEPT !.pc = "crashed", !.panicking = TRUE]
     ELSE [r EXCEPT !.pc = "done",
                    !.status = 200,
                    !.allow = allowedOptions[muxRoutes[at].routeIndex + 1],
                    !.hdrs = addCORSheaders(@ \cup {"Allow", "Content-Type"}),
                    !.body = Append(@, [kind |-> "route", code |-> index]),
                    !.writes = @ + 1]

\* mux answers a request no route matches
muxNotFound(r) == [httpError(r, "text", 404, 404) EXCEPT !.pc = "done"]

\* an OPTIONS request for path
ServeOPTIONS ==
  /\ routes # <<>>
  /\ Quiet
  /\ \E path \in Paths :
       LET at == MuxMatch(muxRoutes, "OPTIONS", path, 1)
           r == [IdleReq EXCEPT !.method = "OPTIONS", !.path = path, !.route = at]
       IN req' = IF at = 0 THEN muxNotFound(r) ELSE OptionsHandler(r, at, path)
  /\ UNCHANGED <<routes, muxRoutes, allowedOptions, corsMap, sortedREs, Db, CSRFKey, pag, boot, util, flights>>

-----------------------------------------------------------------------------
(* The specification of the router build and the preflight resolution      *)

InitServer ==
  /\ routes = <<>>
  /\ muxRoutes = <<>>
  /\ allowedOptions = <<>>
  /\ corsMap = <<>>
  /\ sortedREs = <<>>
  /\ req = IdleReq
  /\ pag = IdlePag
  /\ boot = IdleBoot
  /\ util = IdleUtil
  /\ flights = [k \in Flights |-> IdleFlight]

\* a server with a database and no CSRF key
Init ==
  /\ InitServer
  /\ Db = "open"
  /\ CSRFKey = ""

Next == NewRouter \/ ServeOPTIONS

Spec == Init /\ [][Next]_vars

-----------------------------------------------------------------------------
(* The specification of the preflight resolution of a server whose routes  *)
(* may hold characters that regular expressions give a meaning             *)

PreflightTables ==
  UNION { { t \in [1..n -> RouteCatalog \cup {Plus}] : \A i, j \in 1..n : i # j => t[i] # t[j] } :
          n \in 1..MaxRoutes }

PreflightPaths == Paths \cup { <<"/", "c", "+">>, <<"/", "c", "c">>, <<"/", "c">> }

\* the router of the server is built once
BuildPreflight ==
  /\ routes = <<>>
  /\ \E table \in PreflightTables : NewRouterFrom(table)

\* an OPTIONS request for path
ServePreflight ==
  /\ routes # <<>>
  /\ Quiet
  /\ \E path \in PreflightPaths :
       LET at == MuxMatch(muxRoutes, "OPTIONS", path, 1)
           r == [IdleReq EXCEPT !.method = "OPTIONS", !.path = path, !.route = at]
       IN req' = IF at = 0 THEN muxNotFound(r) ELSE OptionsHandler(r, at, path)
  /\ UNCHANGED <<routes, muxRoutes, allowedOptions, corsMap, sortedREs, Db, CSRFKey, pag, boot, util, flights>>

NextPreflight == BuildPreflight \/ ServePreflight

SpecPreflight == Init /\ [][NextPreflight]_vars

-----------------------------------------------------------------------------
(* The middleware pipeline of a verb route                                 *)

Range(f) == { f[i] : i \in DOMAIN f }

Creds == {"none", "invalid", "valid"}
Toks == {"none", "bad", "good"}
Outcomes == {"ok", "error", "panic", "panicAfterWrite"}

\* safeMethods of setCSRFTokenMiddleware, which are those of csrf.Protect too
safeMethods == {"GET", "HEAD", "OPTIONS", "TRACE"}

\* the tables of the servers whose pipelines are followed stage by stage
PipelineTables == { <<Things, Owned>>, <<Special, ByName>> }

\* the stage about to run
Stage == IF req.pc = "run" THEN muxRoutes[req.route].chain[req.pos] ELSE "none"

\* the stage the request is in calls next(w, r)
callNext(r) == [r EXCEPT !.pos = @ + 1]

\* the stage returns without calling next
shortCircuit(r, stage) == [r EXCEPT !.short = stage, !.pc = "unwind"]

\* the steps of the pipeline leave the router and the server as they are
ServerUnchanged ==
  UNCHANGED <<routes, muxRoutes, allowedOptions, corsMap, sortedREs, Db, CSRFKey, pag, boot, util, flights>>

\* a stage runs: it is entered, and does what middleware makes of the request
RunStage(stage, after) ==
  /\ Stage = stage
  /\ req' = after
  /\ ServerUnchanged

Entered == [req EXCEPT !.stages = Append(@, Stage)]

\* a request with one of the verbs arrives and mux picks its route
Dispatch ==
  /\ routes # <<>>
  /\ Quiet
  /\ \E method \in Verbs, path \in Paths, cred \in Creds, tok \in Toks :
       LET at == MuxMatch(muxRoutes, method, path, 1)
           r == [IdleReq EXCEPT !.method = method, !.path = path, !.cred = cred,
                                !.tok = tok, !.route = at]
       IN req' = IF at = 0 THEN muxNotFound(r) ELSE [r EXCEPT !.pc = "run", !.pos = 1]
  /\ ServerUnchanged

\* logger, before inner.ServeHTTP: the start time is taken
Logger == RunStage("logger", callNext(Entered))

\* csrf.Protect: an unsafe method must carry the token that was issued
csrfProtect(r) ==
  IF r.method \in safeMethods \/ r.tok = "good"
  THEN callNext([r EXCEPT !.hdrs = @ \cup {"Set-Cookie", "Vary"}])
  ELSE shortCircuit(httpError([r EXCEPT !.hdrs = @ \cup {"Set-Cookie", "Vary"}],
                              "text", 403, 403), "csrfProtect")

CsrfProtect == RunStage("csrfProtect", csrfProtect(Entered))

\* panicRecoveryMiddleware, before next: the recovery is deferred
PanicRecovery == RunStage("panicRecovery", callNext(Entered))

\* secureMiddleware.HandlerFuncWithNext: outside development a request that
\* did not come over HTTPS is redirected; otherwise the hardening headers are
\* set and next is called
secureMiddleware(r, redirect) ==
  IF redirect
  THEN shortCircuit([r EXCEPT !.hdrs = @ \cup {"Location"},
                              !.status = 301,
                              !.body = Append(@, [kind |-> "text", code |-> 301]),
                              !.writes = @ + 1], "secure")
  ELSE callNext([r EXCEPT !.hdrs = @ \cup {"X-Frame-Options", "X-XSS-Protection",
                                           "Content-Security-Policy"}])

Secure == \E redirect \in BOOLEAN : RunStage("secure", secureMiddleware(Entered, redirect))

\* setCSRFTokenMiddleware
setCSRFTokenMiddleware(r, key) ==
  callNext(IF key # "" /\ r.method \in safeMethods /\ r.tok = "none"
           THEN [r EXCEPT !.hdrs = @ \cup {"X-CSRF-Token"}]
           ELSE r)

SetCSRFToken == RunStage("setCSRFToken", setCSRFTokenMiddleware(Entered, CSRFKey))

\* a mutant of requireDBMiddleware: next is called after the error is reported
requireDBMiddleware_CallsNext(r, db) ==
  IF db = "nil"
  THEN callNext(reportJSONError(r, ErrorMessage(ErrorNoDatabase)))
  ELSE callNext(r)

\* requireDBMiddleware
requireDBMiddleware(r, db) ==
  IF db = "nil"
  THEN shortCircuit(reportJSONError(r, ErrorMessage(ErrorNoDatabase)), "requireDB")
  ELSE callNext(r)

RequireDB == RunStage("requireDB", requireDBMiddleware(Entered, Db))

\* jwtmiddleware.HandlerWithNext: CheckJWT fails on a token that does not
\* verify, and on a missing token unless credentials are optional; its error
\* handler answers 401
jwtMiddleware(r, credentialsOptional) ==
  IF r.cred = "valid" \/ (r.cred = "none" /\ credentialsOptional)
  THEN callNext(r)
  ELSE shortCircuit(httpError(r, "text", 401, 401),
                    IF credentialsOptional THEN "jwtOptional" ELSE "jwtRequired")

JwtOptional == RunStage("jwtOptional", jwtMiddleware(Entered, TRUE))

JwtRequired == RunStage("jwtRequired", jwtMiddleware(Entered, FALSE))

\* addCORSheadersMiddleware
addCORSheadersMiddleware(r) == callNext([r EXCEPT !.hdrs = addCORSheaders(@)])

AddCORSheaders == RunStage("addCORSheaders", addCORSheadersMiddleware(Entered))

\* the business handler of the route: it writes its result, reports an error
\* envelope, panics, or panics after it has begun to write
businessHandler(r, outcome) ==
  LET written == [r EXCEPT !.status = IF @ = 0 THEN 200 ELSE @,
                           !.hdrs = @ \cup {"Content-Type"},
                           !.body = Append(@, [kind |-> "data", code |-> 0]),
                           !.writes = @ + 1]
      after == CASE outcome = "ok" -> written
                 [] outcome = "error" -> reportJSONError(r, ErrorMessage(ErrorIDNotFound))
                 [] outcome = "panic" -> [r EXCEPT !.panicking = TRUE]
                 [] OTHER -> [written EXCEPT !.panicking = TRUE]
  IN [after EXCEPT !.outcome = outcome, !.pc = "unwind"]

BusinessHandler ==
  \E outcome \in Outcomes : RunStage("handler", businessHandler(Entered, outcome))

\* the deferred function of panicRecoveryMiddleware, when a panic reaches it;
\* a panic that no entered stage recovers leaves the handler
panicRecoveryDeferred(r) ==
  IF "panicRecovery" \in Range(r.stages)
  THEN [httpError(r, "text", 500, 500) EXCEPT !.panicking = FALSE]
  ELSE [r EXCEPT !.pc = "crashed"]

PanicRecoveryDeferred ==
  /\ req.pc = "unwind"
  /\ req.panicking
  /\ req' = panicRecoveryDeferred(req)
  /\ ServerUnchanged

\* logger, after inner.ServeHTTP has returned: one line with the route name
loggerPrintf(r) ==
  [r EXCEPT !.pc = "done",
            !.log = IF "logger" \in Range(r.stages)
                    THEN Append(@, [method |-> r.method, name |-> routes[muxRoutes[r.route].routeIndex + 1].Name])
                    ELSE @]

LoggerPrintf ==
  /\ req.pc = "unwind"
  /\ ~req.panicking
  /\ req' = loggerPrintf(req)
  /\ ServerUnchanged

\* the router of a server is built once, from one of the pipeline tables
SetupRouter ==
  /\ routes = <<>>
  /\ \E table \in PipelineTables : NewRouterFrom(table)

\* any configuration of the server
InitPipeline ==
  /\ InitServer
  /\ Db \in {"nil", "open"}
  /\ CSRFKey \in {"", "key"}

NextPipeline ==
  \/ SetupRouter
  \/ Dispatch
  \/ ServeOPTIONS
  \/ Logger
  \/ CsrfProtect
  \/ PanicRecovery
  \/ Secure
  \/ SetCSRFToken
  \/ RequireDB
  \/ JwtOptional
  \/ JwtRequired
  \/ AddCORSheaders
  \/ BusinessHandler
  \/ PanicRecoveryDeferred
  \/ LoggerPrintf

SpecPipeline == InitPipeline /\ [][NextPipeline]_vars

-----------------------------------------------------------------------------

(***************************************************************************)
(* The specification of concurrent requests: net/http serves each request  *)
(* in a goroutine of its own, and the steps of the goroutines interleave.  *)
(***************************************************************************)

\* the requests that are served concurrently
ConcurrentRequests ==
  { [method |-> "OPTIONS", path |-> <<"/", "t", "/", "s">>, cred |-> "none",
     tok |-> "none", redirect |-> FALSE, outcome |-> ""],
    [method |-> "GET", path |-> <<"/", "t", "/", "s">>, cred |-> "valid",
     tok |-> "none", redirect |-> FALSE, outcome |-> "ok"],
    [method |-> "POST", path |-> <<"/", "t", "/", "s">>, cred |-> "none",
     tok |-> "good", redirect |-> FALSE, outcome |-> "ok"],
    [method |-> "GET", path |-> <<"/", "t", "/", "x">>, cred |-> "valid",
     tok |-> "none", redirect |-> TRUE, outcome |-> "ok"],
    [method |-> "POST", path |-> <<"/", "x", "/", "s">>, cred |-> "valid",
     tok |-> "none", redirect |-> FALSE, outcome |-> "panic"] }

\* the allowed-verb lists once an OPTIONS handler has run: the handler joins
\* the list of its route and leaves it as it is
allowedAfterOptions_Appended(allowed, at) ==
  IF at = 0 THEN allowed
  ELSE [allowed EXCEPT ![muxRoutes[at].routeIndex + 1] = Append(@, "OPTIONS")]

allowedAfterOptions(allowed, at) == allowed

\* mux hands the request to its route; an OPTIONS handler runs as one step
arrive(in) ==
  LET at == MuxMatch(muxRoutes, in.method, in.path, 1)
      r == [IdleReq EXCEPT !.method = in.method, !.path = in.path, !.cred = in.cred,
                           !.tok = in.tok, !.route = at]
  IN IF at = 0 THEN muxNotFound(r)
     ELSE IF in.method = "OPTIONS" THEN OptionsHandler(r, at, in.path)
     ELSE [r EXCEPT !.pc = "run", !.pos = 1]

\* the next step of a request that is in its pipeline
advance(r, redirect, outcome) ==
  IF r.pc = "unwind"
  THEN IF r.panicking THEN panicRecoveryDeferred(r) ELSE loggerPrintf(r)
  ELSE LET stage == muxRoutes[r.route].chain[r.pos]
           entered == [r EXCEPT !.stages = Append(@, stage)]
       IN CASE stage = "logger" -> callNext(entered)
            [] stage = "csrfProtect" -> csrfProtect(entered)
            [] stage = "panicRecovery" -> callNext(entered)
            [] stage = "secure" -> secureMiddleware(entered, redirect)
            [] stage = "setCSRFToken" -> setCSRFTokenMiddleware(entered, CSRFKey)
            [] stage = "requireDB" -> requireDBMiddleware(entered, Db)
            [] stage = "jwtOptional" -> jwtMiddleware(entered, TRUE)
            [] stage = "jwtRequired" -> jwtMiddleware(entered, FALSE)
            [] stage = "addCORSheaders" -> addCORSheadersMiddleware(entered)
            [] OTHER -> businessHandler(entered, outcome)

Arrive ==
  /\ routes # <<>>
  /\ \E k \in Flights, in \in ConcurrentRequests :
       /\ flights[k].r.pc = "idle"
       /\ flights' = [flights EXCEPT ![k] = [r |-> arrive(in), redirect |-> in.redirect,
                                              outcome |-> in.outcome]]
       /\ allowedOptions' =
            IF in.method = "OPTIONS"
            THEN allowedAfterOptions(allowedOptions,
                                     MuxMatch(muxRoutes, in.method, in.path, 1))
            ELSE allowedOptions
  /\ UNCHANGED <<routes, muxRoutes, corsMap, sortedREs, Db, CSRFKey, req, pag, boot, util>>

Advance ==
  /\ \E k \in Flights :
       /\ flights[k].r.pc \in {"run", "unwind"}
       /\ flights' = [flights EXCEPT
                        ![k].r = advance(@, flights[k].redirect, flights[k].outcome)]
  /\ UNCHANGED <<routes, muxRoutes, allowedOptions, corsMap, sortedREs, Db, CSRFKey,
                 req, pag, boot, util>>

NextConcurrent == SetupRouter \/ Arrive \/ Advance

SpecConcurrent == InitPipeline /\ [][NextConcurrent]_vars

-----------------------------------------------------------------------------

(***************************************************************************)
(* The specification of a handler that fails: Handler.ServeHTTP reports    *)
(* the envelope ErrorMessage built for the code the handler returned       *)
(***************************************************************************)

\* the root causes a handler wraps: none, or an error of a library
Bases == {<<>>, <<"sql: connection refused">>, <<"open: permission denied">>}

\* func (fn Handler) ServeHTTP(w, r): fn returns nil (0) or an error message,
\* made by NewErrorMessage or NewErrorMessageWithBase
HandlerError ==
  /\ req.pc = "idle"
  /\ \E method \in Verbs, path \in Paths, code \in ErrorCodes \cup {0}, base \in Bases :
       LET r == [IdleReq EXCEPT !.method = method, !.path = path, !.err = code,
                                !.base = IF code # 0 THEN base ELSE <<>>]
       IN req' = IF code # 0
                 THEN [reportJSONError(r, NewErrorMessageWithBase(code, base))
                         EXCEPT !.pc = "done"]
                 ELSE [r EXCEPT !.pc = "done"]
  /\ UNCHANGED <<routes, muxRoutes, allowedOptions, corsMap, sortedREs, Db, CSRFKey, pag, boot, util, flights>>

NextErrors == HandlerError

SpecErrors == Init /\ [][NextErrors]_vars

-----------------------------------------------------------------------------

(***************************************************************************)
(* The specification of a handler with a result: TypeJSONResult.ServeHTTP  *)
(* cuts the wrapper field off the result and encodes it as JSON.           *)
(*                                                                         *)
(* A Go slice is [isNil, elems]; a JSON text is the sequence of its tokens.*)
(***************************************************************************)

NilSlice == [isNil |-> TRUE, elems |-> <<>>]

MakeSlice(elems) == [isNil |-> FALSE, elems |-> elems]

\* the values of the elements: numbers, and a float that JSON cannot hold
Elements == {"1", "2", "NaN"}

MaxElems == 2

Slices ==
  {NilSlice} \cup { MakeSlice(e) : e \in UNION { [1..n -> Elements] : n \in 0..MaxElems } }

\* the results of a list handler: a struct whose field Items is the list
ListField == "Items"

Results == { [Items |-> sl] : sl \in Slices }

\* encoding/json, a slice: null for a nil slice, [e1,e2,...] otherwise; an
\* unsupported value is an error
RECURSIVE EncodeElems(_)
EncodeElems(elems) ==
  IF elems = <<>> THEN <<>>
  ELSE IF Len(elems) = 1 THEN <<Head(elems)>>
  ELSE <<Head(elems), ",">> \o EncodeElems(Tail(elems))

EncodeSlice(sl) ==
  IF \E i \in DOMAIN sl.elems : sl.elems[i] = "NaN"
  THEN [err |-> <<"json: unsupported value: NaN">>, text |-> <<>>]
  ELSE IF sl.isNil THEN [err |-> <<>>, text |-> <<"null">>]
  ELSE [err |-> <<>>, text |-> <<"[">> \o EncodeElems(sl.elems) \o <<"]">>]

\* encoding/json, the struct itself: {"Items":<the slice>}
EncodeStruct(result) ==
  LET items == EncodeSlice(result.Items)
  IN [err |-> items.err,
      text |-> IF items.err # <<>> THEN <<>>
               ELSE <<"{", "\"Items\"", ":">> \o items.text \o <<"}">>]

\* func (t TypeJSONResult) ServeHTTP(w, r), the handler having returned
\* (result, nil) or (nil, err)
serveJSONResult(r, wrapperField, result, code, base) ==
  IF code # 0
  THEN reportJSONError([r EXCEPT !.err = code, !.base = base],
                       NewErrorMessageWithBase(code, base))
  ELSE LET got == [r EXCEPT !.result = <<result>>]
           encoded == IF wrapperField # ""
                      THEN EncodeSlice(result[wrapperField])
                      ELSE EncodeStruct(result)
           typed == [got EXCEPT !.hdrs = @ \cup {"Content-Type"}]
       IN IF encoded.err # <<>>
          THEN reportJSONError(typed, NewErrorMessageWithBase(ErrorMarshalJSON, encoded.err))
          ELSE [typed EXCEPT !.status = IF @ = 0 THEN 200 ELSE @,
                             !.body = Append(@, [kind |-> "data", code |-> 0]),
                             !.json = Append(@, [text |-> encoded.text]),
                             !.writes = @ + 1]

\* JSONResult(handler) and JSONListResult(wrapper, handler)
Wrappers == {"", ListField}

TypeJSONResultServeHTTP ==
  /\ req.pc = "idle"
  /\ \E method \in Verbs, path \in Paths, wrapperField \in Wrappers,
        result \in Results, code \in {0, ErrorIDNotFound, ErrorNoDatabase}, base \in Bases :
       LET r == [IdleReq EXCEPT !.method = method, !.path = path, !.wrapper = wrapperField]
       IN req' = [serveJSONResult(r, wrapperField, result, code,
                                  IF code # 0 THEN base ELSE <<>>)
                    EXCEPT !.pc = "done"]
  /\ UNCHANGED <<routes, muxRoutes, allowedOptions, corsMap, sortedREs, Db, CSRFKey, pag, boot, util, flights>>

NextResults == TypeJSONResultServeHTTP

SpecResults == Init /\ [][NextResults]_vars

-----------------------------------------------------------------------------

(***************************************************************************)
(* The specification of the database start: Server.dbInit (src/main.go,    *)
(* lines 366-413). gorm.Open returns a handle and an error; with an error  *)
(* the handle is nil or a handle that is not connected ("half").           *)
(***************************************************************************)

\* for i := 0; i < 10; i++
MaxAttempts == 10

TestFlags == {"absent", "false", "true"}

PoolSizes == {0, 5}

OpenResults ==
  { [Db |-> "open", err |-> <<>>],
    [Db |-> "nil", err |-> <<"dial tcp: connection refused">>],
    [Db |-> "half", err |-> <<"dial tcp: connection refused">>] }

BootUnchanged ==
  UNCHANGED <<routes, muxRoutes, allowedOptions, corsMap, sortedREs, CSRFKey, req, pag, util, flights>>

\* server.dbInit() is called: var err error; i := 0
DbInitCall ==
  /\ boot.pc = "idle"
  /\ \E testv \in TestFlags, conns \in PoolSizes :
       boot' = [boot EXCEPT !.pc = "loop", !.testv = testv, !.MaxOpenConns = conns]
  /\ UNCHANGED Db
  /\ BootUnchanged

\* one turn of the loop: s.Db, err = gorm.Open(...); break, or log, sleep, i++
dbInitAttempt(b, opened) ==
  [b EXCEPT !.err = opened.err,
            !.outcomes = Append(@, IF opened.err = <<>> THEN "ok" ELSE "failed"),
            !.i = IF opened.err # <<>> THEN @ + 1 ELSE @,
            !.pc = IF opened.err = <<>> \/ b.i + 1 >= MaxAttempts THEN "after" ELSE "loop"]

DbInitAttempt ==
  /\ boot.pc = "loop"
  /\ boot.i < MaxAttempts
  /\ \E opened \in OpenResults :
       /\ Db' = opened.Db
       /\ boot' = dbInitAttempt(boot, opened)
  /\ BootUnchanged

\* after the loop, with an error: s.Db = nil and the error is returned
dbInitFails_KeepsHandle(b, db) ==
  [Db |-> db,
   boot |-> [b EXCEPT !.pc = "returned",
                      !.ret = <<"Unable to connect to the database">>]]

dbInitFails(b, db) ==
  [Db |-> "nil",
   boot |-> [b EXCEPT !.pc = "returned",
                      !.ret = <<"Unable to connect to the database">>]]

\* after the loop, connected: LogMode, SetMaxOpenConns, return nil
dbInitSucceeds(b, db) ==
  [Db |-> db,
   boot |-> [b EXCEPT !.pc = "returned",
                      !.LogMode = IF b.testv # "absent"
                                  THEN (IF b.testv # "false" THEN "on" ELSE "off")
                                  ELSE "on",
                      !.poolSize = IF b.MaxOpenConns # 0 THEN b.MaxOpenConns ELSE @,
                      !.ret = <<"nil">>]]

DbInitReturn ==
  /\ boot.pc = "after"
  /\ LET done == IF boot.err # <<>> THEN dbInitFails(boot, Db)
                  ELSE dbInitSucceeds(boot, Db)
     IN /\ Db' = done.Db
        /\ boot' = done.boot
  /\ BootUnchanged

\* a server that has not opened its database yet
InitBoot ==
  /\ InitServer
  /\ Db = "nil"
  /\ CSRFKey = ""

NextBoot == DbInitCall \/ DbInitAttempt \/ DbInitReturn

SpecBoot == InitBoot /\ [][NextBoot]_vars

-----------------------------------------------------------------------------

(***************************************************************************)
(* The specification of StrToSlice (src/utility.go)                        *)
(***************************************************************************)

\* strings.TrimSpace
RECURSIVE TrimLeft(_)
TrimLeft(str) ==
  IF str # <<>> /\ Head(str) = " " THEN TrimLeft(Tail(str)) ELSE str

RECURSIVE TrimRight(_)
TrimRight(str) ==
  IF str # <<>> /\ str[Len(str)] = " " THEN TrimRight(SubSeq(str, 1, Len(str) - 1)) ELSE str

TrimSpace(str) == TrimRight(TrimLeft(str))

\* strings.Replace(str, old, "", -1), old being one character
RECURSIVE Remove(_, _)
Remove(str, old) ==
  IF str = <<>> THEN <<>>
  ELSE IF Head(str) = old THEN Remove(Tail(str), old)
  ELSE <<Head(str)>> \o Remove(Tail(str), old)

\* strings.TrimPrefix and strings.TrimSuffix, one character
TrimPrefix(str, prefix) ==
  IF str # <<>> /\ Head(str) = prefix THEN Tail(str) ELSE str

TrimSuffix(str, suffix) ==
  IF str # <<>> /\ str[Len(str)] = suffix THEN SubSeq(str, 1, Len(str) - 1) ELSE str

\* strings.Split(str, sep), one character: one piece more than separators
RECURSIVE Split(_, _)
Split(str, sep) ==
  IF \A i \in DOMAIN str : str[i] # sep THEN <<str>>
  ELSE LET at == CHOOSE i \in DOMAIN str :
                   str[i] = sep /\ \A j \in 1..(i - 1) : str[j] # sep
       IN <<SubSeq(str, 1, at - 1)>> \o Split(SubSeq(str, at + 1, Len(str)), sep)

\* StrToSlice(tags); nil is the empty sequence
StrToSlice(tags) ==
  IF tags = <<>> THEN <<>>
  ELSE LET trimmed == TrimSpace(tags)
           noSpaces == Remove(tags, " ")
           noPrefix == TrimPrefix(noSpaces, ",")
           noSuffix == TrimSuffix(noPrefix, ",")
       IN Split(noSuffix, ",")

\* the input of TestStrToSlice
TestInput ==
  <<" ", "t", "a", "g", " ", "m", "i", "d", "d", "l", "e", " ", "s",
    "p", "a", "c", "e", ",", " ", " ", "t", "e", "s", "t", "_", "t",
    "a", "g", "2", " ", ",", " ", " ", " ", ",", " ", "t", "e", "s",
    "t", "_", "t", "a", "g", "_", "1", ",", " ", " ">>

TagChars == {" ", ",", "a", "b"}

MaxTagLen == 4

TagInputs == UNION { [1..n -> TagChars] : n \in 0..MaxTagLen } \cup {TestInput}

CallStrToSlice ==
  /\ util.pc = "idle"
  /\ \E tags \in TagInputs :
       util' = [pc |-> "returned", input |-> tags, got |-> StrToSlice(tags)]
  /\ UNCHANGED <<routes, muxRoutes, allowedOptions, corsMap, sortedREs, Db, CSRFKey, req, pag, boot, flights>>

NextUtility == CallStrToSlice

SpecUtility == Init /\ [][NextUtility]_vars

-----------------------------------------------------------------------------
(* Pagination (src/unnamed/part_002, lines 1-207)                          *)
(*                                                                         *)
(* A URL is its query: a sequence of key/value pairs in the order of the   *)
(* raw query. Values are sequences of characters out of digits, letters    *)
(* and "-", which url.QueryEscape and url.QueryUnescape leave as they are. *)

defaultPageSize == 20
maxPageSize == 100
defaultPageNumber == 1

pageArgName == "page"
perPageArgName == "per_page"

\* the error code NewPaginationRequest reports
ErrorInvalidPaginationRequest == "ErrorInvalidPaginationRequest"

Digits == <<"0", "1", "2", "3", "4", "5", "6", "7", "8", "9">>

IsDigit(c) == \E i \in DOMAIN Digits : Digits[i] = c

DigitValue(c) == (CHOOSE i \in DOMAIN Digits : Digits[i] = c) - 1

\* the decimal digits of the largest int64, 1<<63 - 1
MaxInt64 ==
  <<"9", "2", "2", "3", "3", "7", "2", "0", "3", "6", "8", "5", "4", "7", "7", "5", "8",
    "0", "7">>

\* the decimal digits of the magnitude of the smallest int64, 1<<63
MinInt64 ==
  <<"9", "2", "2", "3", "3", "7", "2", "0", "3", "6", "8", "5", "4", "7", "7", "5", "8",
    "0", "8">>

RECURSIVE StripZeros(_)
StripZeros(d) == IF d # <<>> /\ Head(d) = "0" THEN StripZeros(Tail(d)) ELSE d

\* a > b, for two digit strings without leading zeros
DigitsGreater(a, b) ==
  \/ Len(a) > Len(b)
  \/ /\ Len(a) = Len(b)
     /\ \E i \in DOMAIN a :
          /\ DigitValue(a[i]) > DigitValue(b[i])
          /\ \A j \in 1..(i - 1) : a[j] = b[j]

RECURSIVE DigitsToInt(_)
DigitsToInt(d) ==
  IF d = <<>> THEN 0
  ELSE 10 * DigitsToInt(SubSeq(d, 1, Len(d) - 1)) + DigitValue(d[Len(d)])

\* strconv.ParseInt(s, 10, 64): an optional sign and decimal digits; err is
\* "syntax" when s is not that, "range" when the number is no int64. The
\* callers return on an error and never read the value that comes with it.
ParseIntErr(s) ==
  LET signed == s # <<>> /\ Head(s) \in {"+", "-"}
      neg    == s # <<>> /\ Head(s) = "-"
      d      == IF signed THEN Tail(s) ELSE s
      z      == StripZeros(d)
  IN IF d = <<>> \/ \E i \in DOMAIN d : ~IsDigit(d[i]) THEN "syntax"
     ELSE IF DigitsGreater(z, IF neg THEN MinInt64 ELSE MaxInt64) THEN "range"
     ELSE ""

ParseInt(s) ==
  LET signed == s # <<>> /\ Head(s) \in {"+", "-"}
      neg    == s # <<>> /\ Head(s) = "-"
      d      == IF signed THEN Tail(s) ELSE s
      z      == StripZeros(d)
  IN IF ParseIntErr(s) # "" THEN [err |-> ParseIntErr(s), val |-> 0]
     ELSE [err |-> "", val |-> IF neg THEN 0 - DigitsToInt(z) ELSE DigitsToInt(z)]

\* fmt.Sprint(n) of an int64
RECURSIVE SprintNat(_)
SprintNat(n) ==
  IF n < 10 THEN <<Digits[n + 1]>> ELSE SprintNat(n \div 10) \o <<Digits[(n % 10) + 1]>>

Sprint(n) == IF n < 0 THEN <<"-">> \o SprintNat(0 - n) ELSE SprintNat(n)

\* url.Values.Get(key): the first value of key, "" when there is none
Get(query, key) ==
  LET at == { i \in DOMAIN query : query[i].key = key }
  IN IF at = {} THEN <<>>
     ELSE query[CHOOSE i \in at : \A j \in at : i <= j].value

\* NewErrorMessageWithArgs(ErrorInvalidPaginationRequest, err, {arg})
InvalidPaginationRequest(arg) ==
  [request |-> <<>>, err |-> <<[code |-> ErrorInvalidPaginationRequest, arg |-> arg]>>]

\* a mutant of LimitPerPage: a page size over the maximum becomes the maximum
LimitPerPage_Max(perPage) == IF perPage > maxPageSize THEN maxPageSize ELSE perPage

\* if pageRequest.PerPage > maxPageSize { pageRequest.PerPage = defaultPageSize }
LimitPerPage(perPage) == IF perPage > maxPageSize THEN defaultPageSize ELSE perPage

\* a mutant of NewPaginationRequest: a value that is no positive integer is
\* replaced by the default
NewPaginationRequest_Defaulting(query) ==
  LET pageStr    == Get(query, pageArgName)
      page       == ParseInt(pageStr)
      perPageStr == Get(query, perPageArgName)
      perPage    == ParseInt(perPageStr)
  IN [request |->
        <<[PageRequested |-> pageStr # <<>>,
           Page |-> IF pageStr = <<>> \/ page.err # "" \/ page.val <= 0
                    THEN defaultPageNumber ELSE page.val,
           PerPage |-> IF perPageStr = <<>> \/ perPage.err # "" \/ perPage.val <= 0
                       THEN defaultPageSize ELSE LimitPerPage(perPage.val),
           URL |-> query]>>,
      err |-> <<>>]

\* a mutant of NewPaginationRequest: PageRequested is set once the page is valid
NewPaginationRequest_FlagLate(query) ==
  LET pageStr    == Get(query, pageArgName)
      page       == ParseInt(pageStr)
      perPageStr == Get(query, perPageArgName)
      perPage    == ParseInt(perPageStr)
  IN IF pageStr # <<>> /\ page.err # "" THEN InvalidPaginationRequest(pageArgName)
     ELSE IF pageStr # <<>> /\ page.val <= 0 THEN InvalidPaginationRequest(pageArgName)
     ELSE IF perPageStr # <<>> /\ perPage.err # ""
     THEN InvalidPaginationRequest(perPageArgName)
     ELSE IF perPageStr # <<>> /\ perPage.val <= 0
     THEN InvalidPaginationRequest(perPageArgName)
     ELSE [request |->
             <<[PageRequested |-> pageStr # <<>> /\ page.val > 1,
                Page |-> IF pageStr = <<>> THEN defaultPageNumber ELSE page.val,
                PerPage |-> IF perPageStr = <<>> THEN defaultPageSize
                            ELSE LimitPerPage(perPage.val),
                URL |-> query]>>,
           err |-> <<>>]

\* NewPaginationRequest(r): the request, or the error, for the query of r.URL
NewPaginationRequest(query) ==
  LET pageStr    == Get(query, pageArgName)
      page       == ParseInt(pageStr)
      perPageStr == Get(query, perPageArgName)
      perPage    == ParseInt(perPageStr)
  IN IF pageStr # <<>> /\ page.err # "" THEN InvalidPaginationRequest(pageArgName)
     ELSE IF pageStr # <<>> /\ page.val <= 0 THEN InvalidPaginationRequest(pageArgName)
     ELSE IF perPageStr # <<>> /\ perPage.err # ""
     THEN InvalidPaginationRequest(perPageArgName)
     ELSE IF perPageStr # <<>> /\ perPage.val <= 0
     THEN InvalidPaginationRequest(perPageArgName)
     ELSE [request |->
             <<[PageRequested |-> pageStr # <<>>,
                Page |-> IF pageStr = <<>> THEN defaultPageNumber ELSE page.val,
                PerPage |-> IF perPageStr = <<>> THEN defaultPageSize
                            ELSE LimitPerPage(perPage.val),
                URL |-> query]>>,
           err |-> <<>>]

\* a mutant of computeLastPage: the last, partly filled page is not counted
computeLastPage_Floor(page) == page.QueryCount \div page.PerPage

\* computeLastPage(page)
computeLastPage(page) ==
  LET mod      == page.QueryCount % page.PerPage
      lastPage == page.QueryCount \div page.PerPage
  IN IF mod > 0 THEN lastPage + 1 ELSE lastPage

\* int64 arithmetic on numbers that are not negative, as decimal digits
\* without leading zeros: the product of a page and a page size goes over
\* what an int64 holds

\* the decimal digits of 1<<64
Pow64 ==
  <<"1", "8", "4", "4", "6", "7", "4", "4", "0", "7", "3", "7", "0", "9", "5", "5", "1",
    "6", "1", "6">>

Norm(d) == IF StripZeros(d) = <<>> THEN <<"0">> ELSE StripZeros(d)

\* a - b, a >= b, digit by digit from the right
RECURSIVE SubBorrow(_, _, _)
SubBorrow(a, b, borrow) ==
  IF a = <<>> THEN <<>>
  ELSE LET bl == IF b = <<>> THEN 0 ELSE DigitValue(b[Len(b)])
           v == DigitValue(a[Len(a)]) - bl - borrow
       IN SubBorrow(SubSeq(a, 1, Len(a) - 1),
                    IF b = <<>> THEN <<>> ELSE SubSeq(b, 1, Len(b) - 1),
                    IF v < 0 THEN 1 ELSE 0)
          \o <<Digits[(IF v < 0 THEN v + 10 ELSE v) + 1]>>

SubDigits(a, b) == Norm(SubBorrow(a, b, 0))

\* d * n, n a small number, digit by digit from the right
RECURSIVE MulCarry(_, _, _)
MulCarry(d, n, carry) ==
  IF d = <<>> THEN (IF carry = 0 THEN <<>> ELSE SprintNat(carry))
  ELSE LET v == DigitValue(d[Len(d)]) * n + carry
       IN MulCarry(SubSeq(d, 1, Len(d) - 1), n, v \div 10) \o <<Digits[(v % 10) + 1]>>

MulDigits(d, n) == Norm(MulCarry(d, n, 0))

\* the int64 that the number d is stored as: d mod 1<<64, negative from 1<<63 on
RECURSIVE Mod64(_)
Mod64(d) == IF DigitsGreater(Pow64, d) THEN d ELSE Mod64(SubDigits(d, Pow64))

Wrap64(d) ==
  LET m == Mod64(d)
  IN IF DigitsGreater(MinInt64, m) THEN [neg |-> FALSE, digits |-> m]
     ELSE [neg |-> TRUE, digits |-> SubDigits(Pow64, m)]

\* Max(x, y) of utility.go
Max(x, y) == IF DigitsGreater(x, y) THEN x ELSE y

\* q.Limit(int(p.PerPage)).Offset((Max(p.Page, 1) - 1) * p.PerPage) for the
\* page query, q.Limit(-1).Offset(-1) for the count; page is p.Page in digits
pageQuery(page, perPage) ==
  [limit |-> perPage,
   offset |-> Wrap64(MulDigits(SubDigits(Max(page, <<"1">>), <<"1">>), perPage)),
   countLimit |-> -1,
   countOffset |-> -1]

\* a mutant of PaginateQuery: the first page of an empty result is not found
PaginateQuery_NoEmptyPage(p, count) ==
  LET r == [Page |-> p.Page, PerPage |-> p.PerPage, URL |-> p.URL, QueryCount |-> count]
      lastPage == computeLastPage(r)
  IN [Page |-> r.Page, PerPage |-> r.PerPage, URL |-> r.URL, QueryCount |-> r.QueryCount,
      PageFound |-> (r.Page <= lastPage)]

\* PaginateQuery(q, result, p) when the query and its count succeed, count
\* being the number of rows of the query
PaginateQuery(p, count) ==
  LET r == [Page |-> p.Page, PerPage |-> p.PerPage, URL |-> p.URL, QueryCount |-> count]
      lastPage == computeLastPage(r)
  IN [Page |-> r.Page, PerPage |-> r.PerPage, URL |-> r.URL, QueryCount |-> r.QueryCount,
      PageFound |-> (r.Page <= lastPage \/ (r.Page = 1 /\ r.QueryCount = 0))]

\* the keys of the queries, in the order sort.Strings gives them
SortedKeys == <<pageArgName, perPageArgName, "q">>

RECURSIVE ValuesOf(_, _)
ValuesOf(query, key) ==
  IF query = <<>> THEN <<>>
  ELSE (IF Head(query).key = key THEN <<Head(query).value>> ELSE <<>>)
       \o ValuesOf(Tail(query), key)

\* u.Query(): url.Values, each key of the query with its values in order
Query(query) ==
  [key \in { query[i].key : i \in DOMAIN query } |-> ValuesOf(query, key)]

\* url.Values.Set(key, value)
Set(values, key, value) ==
  [k \in DOMAIN values \cup {key} |-> IF k = key THEN <<value>> ELSE values[k]]

\* url.Values.Encode(): the pairs sorted by key
RECURSIVE Encode(_, _)
Encode(values, i) ==
  IF i > Len(SortedKeys) THEN <<>>
  ELSE (IF SortedKeys[i] \in DOMAIN values
        THEN [j \in DOMAIN values[SortedKeys[i]] |->
                [key |-> SortedKeys[i], value |-> values[SortedKeys[i]][j]]]
        ELSE <<>>)
       \o Encode(values, i + 1)

\* newLinkStr(u, page, name): the link, whose URL is also what u is left as
newLinkStr(u, page, name) ==
  LET params == Set(Query(u), pageArgName, Sprint(page))
  IN [url |-> Encode(params, 1), rel |-> name]

\* the links of the targets, each newLinkStr working on the URL the one
\* before it left in u
RECURSIVE newLinks(_, _)
newLinks(u, targets) ==
  IF targets = <<>> THEN <<>>
  ELSE LET link == newLinkStr(u, Head(targets).page, Head(targets).rel)
       IN <<link>> \o newLinks(link.url, Tail(targets))

\* a mutant of nextAndLast: the last page has a next page too
nextAndLast_Inclusive(page, lastPage) ==
  IF page.Page <= lastPage
  THEN <<[page |-> page.Page + 1, rel |-> "next"], [page |-> lastPage, rel |-> "last"]>>
  ELSE <<>>

\* WritePaginationHeaders, "Next and Last": the pages the two links go to
nextAndLast(page, lastPage) ==
  IF page.Page < lastPage
  THEN <<[page |-> page.Page + 1, rel |-> "next"], [page |-> lastPage, rel |-> "last"]>>
  ELSE <<>>

\* a mutant of firstAndPrev: prev is the page before, wherever the last page is
firstAndPrev_PageBefore(page, lastPage) ==
  IF page.Page > 1
  THEN <<[page |-> 1, rel |-> "first"], [page |-> page.Page - 1, rel |-> "prev"]>>
  ELSE <<>>

\* WritePaginationHeaders, "First and Prev": the pages the two links go to
firstAndPrev(page, lastPage) ==
  LET prev == IF page.Page > lastPage THEN lastPage ELSE page.Page - 1
  IN IF page.Page > 1
     THEN <<[page |-> 1, rel |-> "first"], [page |-> prev, rel |-> "prev"]>>
     ELSE <<>>

\* a mutant of totalCount: the number of pages is reported
totalCount_Pages(page) == Sprint(computeLastPage(page))

\* the value of X-Total-Count: fmt.Sprint(page.QueryCount)
totalCount(page) == Sprint(page.QueryCount)

\* WritePaginationHeaders(page, w, r): the Link and X-Total-Count headers.
\* params is set and never encoded into u.
WritePaginationHeaders(page) ==
  LET u        == page.URL
      params   == Set(Query(u), perPageArgName, Sprint(page.PerPage))
      lastPage == computeLastPage(page)
      targets  == nextAndLast(page, lastPage) \o firstAndPrev(page, lastPage)
  IN [Link |-> newLinks(u, targets), XTotalCount |-> totalCount(page)]

-----------------------------------------------------------------------------
(* The specification of a paginated query: the handler builds the request, *)
(* runs the query and writes the headers                                   *)

MaxParams == 2
MaxCount == 5

PageValues ==
  { <<>>, <<"0">>, <<"-", "1">>, <<"1">>, <<"2">>, <<"3">>, <<"1", "0">>, <<"a">>,
    MinInt64 }

PerPageValues ==
  { <<>>, <<"0">>, <<"-", "5">>, <<"1">>, <<"2">>, <<"2", "0">>, <<"1", "0", "0">>,
    <<"1", "0", "1">>, <<"1", "5", "0">>, <<"x">> }

QueryParams ==
  { [key |-> pageArgName, value |-> v] : v \in PageValues }
  \cup { [key |-> perPageArgName, value |-> v] : v \in PerPageValues }
  \cup { [key |-> "q", value |-> <<"a">>] }

Queries == UNION { [1..n -> QueryParams] : n \in 0..MaxParams }

Counts == (0..MaxCount) \cup {45}

RouterUnchanged ==
  UNCHANGED <<routes, muxRoutes, allowedOptions, corsMap, sortedREs, Db, CSRFKey, req, boot, util, flights>>

\* the handler calls NewPaginationRequest(r)
NewRequest ==
  /\ pag.pc = "idle"
  /\ \E query \in Queries :
       LET made == NewPaginationRequest(query)
       IN pag' = [IdlePag EXCEPT !.pc = IF made.err # <<>> THEN "rejected" ELSE "requested",
                                 !.query = query,
                                 !.request = made.request,
                                 !.err = made.err]
  /\ RouterUnchanged

\* the handler calls PaginateQuery, the query finding count rows
Paginate ==
  /\ pag.pc = "requested"
  /\ \E count \in Counts :
       pag' = [pag EXCEPT !.pc = "paginated",
                          !.sql = <<pageQuery(Sprint(pag.request[1].Page),
                                              pag.request[1].PerPage)>>,
                          !.result = <<PaginateQuery(pag.request[1], count)>>]
  /\ RouterUnchanged

\* the query, or its count, fails: PaginateQuery returns the error
PaginateFails ==
  /\ pag.pc = "requested"
  /\ pag' = [pag EXCEPT !.pc = "failed", !.err = <<[code |-> "q.Error", arg |-> ""]>>]
  /\ RouterUnchanged

\* the handler calls WritePaginationHeaders
WriteHeaders ==
  /\ pag.pc = "paginated"
  /\ pag' = [pag EXCEPT !.pc = "written",
                        !.headers = <<WritePaginationHeaders(pag.result[1])>>]
  /\ RouterUnchanged

NextPagination == NewRequest \/ Paginate \/ PaginateFails \/ WriteHeaders

SpecPagination == Init /\ [][NextPagination]_vars

-----------------------------------------------------------------------------

(***************************************************************************)
(* The specification of the page query of requests for far pages: the     *)
(* handler builds the request and PaginateQuery gives the query its limit  *)
(* and its offset                                                          *)
(***************************************************************************)

\* the page numbers asked for: near pages, and pages up to the largest int64
FarPageValues ==
  { <<"1">>, <<"2">>, <<"3">>, <<"1", "0">>, <<"1", "0", "0", "0">>,
    <<"2", "1", "4", "7", "4", "8", "3", "6", "4", "8">>,
    <<"9", "2", "2", "3", "3", "7", "2", "0", "3", "6", "8", "5", "4", "7", "7", "5", "8">>,
    <<"4", "6", "1", "1", "6", "8", "6", "0", "1", "8", "4", "2", "7", "3", "8", "7", "9",
      "1">>,
    <<"4", "6", "1", "1", "6", "8", "6", "0", "1", "8", "4", "2", "7", "3", "8", "7", "9",
      "2">>,
    <<"9", "2", "2", "3", "3", "7", "2", "0", "3", "6", "8", "5", "4", "7", "7", "5", "8",
      "0", "6">>,
    MaxInt64 }

FarPerPageValues ==
  { <<>>, <<"1">>, <<"2">>, <<"3">>, <<"7">>, <<"1", "0">>, <<"2", "0">>, <<"5", "0">>,
    <<"6", "4">>, <<"1", "0", "0">>, <<"1", "5", "0">> }

\* NewPaginationRequest on ?page=v&per_page=w, then the Limit and Offset
\* calls of PaginateQuery
FarPageQuery ==
  /\ pag.pc = "idle"
  /\ \E v \in FarPageValues, w \in FarPerPageValues :
       LET query == <<[key |-> pageArgName, value |-> v]>>
                    \o (IF w = <<>> THEN <<>> ELSE <<[key |-> perPageArgName, value |-> w]>>)
           perPage == ParseInt(w)
       IN /\ ParseIntErr(v) = ""
          /\ Head(v) # "-"
          /\ Norm(v) # <<"0">>
          /\ w # <<>> => (perPage.err = "" /\ perPage.val > 0)
          /\ pag' = [IdlePag EXCEPT
                       !.pc = "queried",
                       !.query = query,
                       !.sql = <<pageQuery(Norm(v),
                                           IF w = <<>> THEN defaultPageSize
                                           ELSE LimitPerPage(perPage.val))>>]
  /\ RouterUnchanged

NextFarPages == FarPageQuery

SpecFarPages == Init /\ [][NextFarPages]_vars

-----------------------------------------------------------------------------
(* What the properties below speak of                                      *)

\* an OPTIONS handler has answered the request with a route's metadata
OptionsAnswered == req.pc = "done" /\ req.method = "OPTIONS" /\ req.status = 200

\* the index of the route whose metadata the answer carries
AnsweredIndex == req.body[1].code

\* the request went to the pipeline of a verb route
InPipeline == req.method \in Verbs /\ req.route # 0

\* the patterns as the properties read them: the number of wildcard items
\* and the length of the pattern
WildcardCount(p) == Cardinality({ i \in DOMAIN ParseRE(p) : ParseRE(p)[i].kind = "wild" })

MoreSpecific(p1, p2) ==
  \/ WildcardCount(p1) < WildcardCount(p2)
  \/ WildcardCount(p1) = WildcardCount(p2) /\ Len(p1) > Len(p2)

\* the literal part of a pattern: its items that are one given character
LiteralLength(p) == Cardinality({ i \in DOMAIN ParseRE(p) : ParseRE(p)[i].kind = "lit" })

\* fewer wildcard segments, or as many and a longer literal part
LongerLiteral(p1, p2) ==
  \/ WildcardCount(p1) < WildcardCount(p2)
  \/ WildcardCount(p1) = WildcardCount(p2) /\ LiteralLength(p1) > LiteralLength(p2)

\* route i of the table declares pattern p
Declares(i, p) ==
  \E k \in DOMAIN RouteCalls(routes, 0) :
    LET call == RouteCalls(routes, 0)[k]
    IN call.routeIndex = i /\ reString(routes[i + 1].URI \o call.ext) = p

DeclaredPatterns == { p \in DOMAIN corsMap : \E i \in 0..(Len(routes) - 1) : Declares(i, p) }

\* the pattern the scan of the OPTIONS handler stops at, <<>> when at none
SelectedPattern(path) ==
  LET hit == FirstMatch(sortedREs, path, 1)
  IN IF hit = 0 THEN <<>> ELSE sortedREs[hit]

\* the verbs a route declares
DeclaredVerbs(route) ==
  { route.Methods[i].Type : i \in DOMAIN route.Methods }
  \cup { route.SecureMethods[i].Type : i \in DOMAIN route.SecureMethods }

-----------------------------------------------------------------------------
(* C1 *)

-----------------------------------------------------------------------------
(* C2 *)

\* C2, as claimed: every build of the router from the same table and the
\* same index resolves every path to the same route index.
C2_SameResolutionEveryBuild ==
  [][ (routes # <<>> /\ routes' = routes /\ corsMap' = corsMap)
      => \A path \in Paths :
           ResolveIndex(sortedREs', corsMap', path) = ResolveIndex(sortedREs, corsMap, path)
    ]_vars

-----------------------------------------------------------------------------
(* C3 *)

\* the routes of the table have names and patterns of their own
DistinctRoutes ==
  \A i, j \in DOMAIN routes :
    i # j => /\ routes[i].Name # routes[j].Name
             /\ \A p \in DOMAIN corsMap : ~(Declares(i - 1, p) /\ Declares(j - 1, p))

\* C3, as claimed: the Allow header of an answered OPTIONS request lists the
\* verbs declared by the route whose metadata is in the body, for every table
\* of routes with names and patterns of their own, overlapping ones included.
C3_AllowOfAnsweredRoute ==
  (OptionsAnswered /\ DistinctRoutes)
  => Range(req.allow) = DeclaredVerbs(routes[AnsweredIndex + 1])

-----------------------------------------------------------------------------
(* C4 *)

\* C4, as claimed: once the router is built, corsMap holds the pattern of
\* every declared path and maps it to the index of the route that declared it.
C4_IndexMapsDeclaringRoute ==
  routes # <<>> =>
    \A k \in DOMAIN RouteCalls(routes, 0) :
      LET call == RouteCalls(routes, 0)[k]
          p == reString(routes[call.routeIndex + 1].URI \o call.ext)
      IN p \in DOMAIN corsMap /\ corsMap[p] = call.routeIndex

-----------------------------------------------------------------------------
(* C5 *)

\* C5: a request without valid credentials that mux hands to the pipeline of
\* a secure method never enters the business handler, and when it reaches
\* the required-authentication stage that stage answers 401 and ends the chain.
C5_SecureHandlerNeedsCredentials ==
  ( /\ InPipeline
    /\ muxRoutes[req.route].isSecure
    /\ req.cred \in {"none", "invalid"} )
  => /\ "handler" \notin Range(req.stages)
     /\ req.outcome = ""
     /\ "jwtOptional" \notin Range(req.stages)
     /\ "jwtRequired" \in Range(req.stages)
          => (req.short = "jwtRequired" /\ req.status = 401 /\ req.pc # "run")

\* C5, witness: a request without credentials rejected by the required
\* authentication of a secure method
C5_Witness ==
  /\ InPipeline
  /\ req.pc = "done"
  /\ muxRoutes[req.route].isSecure
  /\ req.cred = "none"
  /\ req.short = "jwtRequired"
  /\ req.status = 401
  /\ "handler" \notin Range(req.stages)

-----------------------------------------------------------------------------
(* C6 *)

\* C6, as claimed: every response of the pipeline of a verb route carries the
\* Access-Control-Allow-* headers, whatever the outcome.
C6_EveryResponseHasCORS ==
  (InPipeline /\ req.pc = "done") => CORSHeaders \subseteq req.hdrs

\* C6, what the chain does give: the response carries the headers once the
\* CORS stage has been reached, so after every outcome of the business
\* handler (success, error envelope, panic); a response written by a stage
\* that ends the chain before the CORS stage (redirect, CSRF rejection, no
\* data store, authentication rejection) carries none of them.
C6_CORSOnceStageReached ==
  InPipeline =>
    /\ "addCORSheaders" \in Range(req.stages) => CORSHeaders \subseteq req.hdrs
    /\ req.outcome # "" => CORSHeaders \subseteq req.hdrs
    /\ req.short # "" => CORSHeaders \cap req.hdrs = {}

\* C6: the response to a request whose handler panicked carries the headers
C6_Witness ==
  /\ InPipeline
  /\ req.pc = "done"
  /\ req.outcome = "panic"
  /\ req.status = 500
  /\ CORSHeaders \subseteq req.hdrs

-----------------------------------------------------------------------------
(* C7 *)

\* C7, as claimed: when the business handler panics, before or after it has
\* begun to write, the client receives exactly one HTTP 500 response, the
\* panic stays in the pipeline and the logger records one entry with the
\* route name.
C7_PanicGivesOne500 ==
  (InPipeline /\ req.pc \in {"done", "crashed"} /\ req.outcome \in {"panic", "panicAfterWrite"})
  => /\ req.pc = "done"
     /\ ~req.panicking
     /\ req.status = 500
     /\ req.writes = 1
     /\ req.body = <<[kind |-> "text", code |-> 500]>>
     /\ Len(req.log) = 1
     /\ req.log[1].name = routes[muxRoutes[req.route].routeIndex + 1].Name

-----------------------------------------------------------------------------
(* C8 *)

\* C8: a stage that ends the chain has written exactly one response and no
\* stage is entered after it; requireDBMiddleware with no data store writes
\* one ErrorNoDatabase envelope with status 503, and neither authentication,
\* nor the CORS stage, nor the business handler runs.
C8_ShortCircuitStopsChain ==
  InPipeline =>
    /\ req.short # "" =>
         /\ req.writes = 1
         /\ Len(req.body) = 1
         /\ req.status \in {301, 401, 403, 503}
         /\ req.stages[Len(req.stages)] = req.short
         /\ req.pc # "run"
    /\ ("requireDB" \in Range(req.stages) /\ Db = "nil") =>
         /\ req.short = "requireDB"
         /\ req.status = 503
         /\ req.body = <<[kind |-> "errmsg", code |-> 1000]>>
         /\ req.writes = 1
         /\ Range(req.stages) \cap {"jwtOptional", "jwtRequired", "addCORSheaders", "handler"} = {}
         /\ CORSHeaders \cap req.hdrs = {}

\* C8, witness: a request answered by requireDBMiddleware
C8_Witness ==
  /\ InPipeline
  /\ req.pc = "done"
  /\ Db = "nil"
  /\ req.short = "requireDB"
  /\ req.status = 503
  /\ req.body = <<[kind |-> "errmsg", code |-> ErrorNoDatabase]>>

-----------------------------------------------------------------------------
(* C9 *)

\* the position of a stage in an order, authentication under one name
StageName(stage) == IF stage \in {"jwtOptional", "jwtRequired"} THEN "auth" ELSE stage

PositionIn(order, stage) ==
  LET at == { i \in DOMAIN order : order[i] = StageName(stage) }
  IN IF at = {} THEN 0 ELSE CHOOSE i \in at : TRUE

\* the stages entered follow one another as order has them
FollowsOrder(stages, order) ==
  /\ \A i \in DOMAIN stages : PositionIn(order, stages[i]) # 0
  /\ \A i, j \in DOMAIN stages :
       i < j => PositionIn(order, stages[i]) < PositionIn(order, stages[j])

-----------------------------------------------------------------------------
(* C10 *)

\* C10, as claimed: NewRouter builds no router from a table with two routes
\* of the same name: the routes of a router that is built and serves have
\* names of their own.
C10_DuplicateNameRejected ==
  muxRoutes # <<>>
  => \A i, j \in DOMAIN routes : i # j => routes[i].Name # routes[j].Name

-----------------------------------------------------------------------------
(* What the pagination properties speak of                                 *)

\* the value of a parameter of the query: its first value, as Get reads it
Param(key) == Get(pag.query, key)

\* the parameter is in the query, with or without a value
Present(key) == \E i \in DOMAIN pag.query : pag.query[i].key = key

\* v is an optional sign and one decimal digit or more
IsNumber(v) ==
  LET d == IF v # <<>> /\ Head(v) \in {"+", "-"} THEN Tail(v) ELSE v
  IN d # <<>> /\ \A i \in DOMAIN d : IsDigit(d[i])

\* v is a number and more than 0
IsPositiveNumber(v) ==
  /\ IsNumber(v)
  /\ Head(v) # "-"
  /\ \E i \in DOMAIN v : IsDigit(v[i]) /\ v[i] # "0"

\* the number a positive number without sign is
NumberValue(v) == DigitsToInt(v)

\* NewPaginationRequest returned the error and no request
RejectedAsInvalid ==
  /\ pag.pc = "rejected"
  /\ pag.request = <<>>
  /\ Len(pag.err) = 1
  /\ pag.err[1].code = ErrorInvalidPaginationRequest

\* NewPaginationRequest returned a request
RequestMade == pag.pc # "idle" /\ pag.request # <<>>

\* PaginateQuery returned a result
ResultMade == pag.pc \in {"paginated", "written"}

\* ceil(a / b), for a >= 0 and b >= 1
CeilDiv(a, b) == CHOOSE n \in 0..a : n * b >= a /\ (n = 0 \/ (n - 1) * b < a)

\* the links of the Link header with relation rel
LinksOf(rel) ==
  { i \in DOMAIN pag.headers[1].Link : pag.headers[1].Link[i].rel = rel }

\* the page a link goes to
TargetOf(i) == Get(pag.headers[1].Link[i].url, pageArgName)

-----------------------------------------------------------------------------
(* C11 *)

\* C11, as claimed: whenever page or per_page is present in the query and
\* its value is non-numeric or not more than 0, NewPaginationRequest returns
\* an InvalidPaginationRequest error and no request.
C11_PresentInvalidRejected ==
  pag.pc # "idle" =>
    \A key \in {pageArgName, perPageArgName} :
      (Present(key) /\ ~IsPositiveNumber(Param(key))) => RejectedAsInvalid

\* C11, amended: whenever the first value of page or per_page is not empty
\* and is non-numeric or not more than 0, NewPaginationRequest returns an
\* InvalidPaginationRequest error and no request; a parameter present with
\* an empty first value is read as absent.
C11_NonEmptyInvalidRejected ==
  pag.pc # "idle" =>
    /\ \A key \in {pageArgName, perPageArgName} :
         (Param(key) # <<>> /\ ~IsPositiveNumber(Param(key))) => RejectedAsInvalid
    /\ (RequestMade /\ Param(pageArgName) = <<>>)
         => (pag.request[1].Page = 1 /\ ~pag.request[1].PageRequested)
    /\ (RequestMade /\ Param(perPageArgName) = <<>>)
         => pag.request[1].PerPage = 20

\* C11, witness: per_page=0 is rejected
C11_Witness ==
  /\ RejectedAsInvalid
  /\ Param(perPageArgName) = <<"0">>
  /\ pag.err[1].arg = perPageArgName

-----------------------------------------------------------------------------
(* C12 *)

\* C12: the request NewPaginationRequest returns has PerPage 20 when
\* per_page is absent, the value of per_page when it is in 1..100, and 20
\* when it is more than 100.
C12_PerPageDefaultOverMax ==
  RequestMade =>
    LET v == Param(perPageArgName)
    IN pag.request[1].PerPage =
         IF v = <<>> THEN 20
         ELSE IF NumberValue(v) \in 1..100 THEN NumberValue(v)
         ELSE 20

\* C12, witness: per_page=150 gives 20
C12_Witness ==
  /\ RequestMade
  /\ Param(perPageArgName) = <<"1", "5", "0">>
  /\ pag.request[1].PerPage = 20

-----------------------------------------------------------------------------
(* C13 *)

\* C13: the request NewPaginationRequest returns has Page >= 1 and
\* 0 < PerPage <= 100; PageRequested is true exactly when page has a
\* non-empty value, and Page is 1 when it has none.
C13_RequestInRange ==
  RequestMade =>
    /\ pag.request[1].Page >= 1
    /\ pag.request[1].PerPage > 0
    /\ pag.request[1].PerPage <= 100
    /\ pag.request[1].PageRequested <=> (Param(pageArgName) # <<>>)
    /\ Param(pageArgName) = <<>> => pag.request[1].Page = 1

\* C13, witness: page=1 was asked for, and per_page=100
C13_Witness ==
  /\ RequestMade
  /\ Param(pageArgName) = <<"1">>
  /\ pag.request[1].PageRequested
  /\ pag.request[1].Page = 1
  /\ pag.request[1].PerPage = 100

-----------------------------------------------------------------------------
(* C14 *)

\* C14: the result of PaginateQuery has PageFound true exactly when
\* Page <= ceil(QueryCount / PerPage), or Page = 1 and QueryCount = 0.
C14_PageFoundFormula ==
  ResultMade =>
    LET r == pag.result[1]
    IN /\ r.Page >= 1 /\ r.PerPage >= 1 /\ r.QueryCount >= 0
       /\ r.PageFound <=> ( \/ r.Page <= CeilDiv(r.QueryCount, r.PerPage)
                            \/ (r.Page = 1 /\ r.QueryCount = 0) )

\* C14, witness: page 10 of a result of 3 pages is not found
C14_Witness ==
  /\ ResultMade
  /\ pag.result[1].Page = 10
  /\ pag.result[1].QueryCount = 5
  /\ pag.result[1].PerPage = 2
  /\ ~pag.result[1].PageFound

-----------------------------------------------------------------------------
(* C15 *)

\* C15: WritePaginationHeaders emits next and last, once each, exactly when
\* Page < lastPage, lastPage being ceil(QueryCount / PerPage); next goes to
\* Page + 1 and last to lastPage.
C15_NextAndLast ==
  pag.pc = "written" =>
    LET r == pag.result[1]
        lastPage == CeilDiv(r.QueryCount, r.PerPage)
    IN /\ Cardinality(LinksOf("next")) = (IF r.Page < lastPage THEN 1 ELSE 0)
       /\ Cardinality(LinksOf("last")) = (IF r.Page < lastPage THEN 1 ELSE 0)
       /\ \A i \in LinksOf("next") : NumberValue(TargetOf(i)) = r.Page + 1
       /\ \A i \in LinksOf("last") : NumberValue(TargetOf(i)) = lastPage

\* C15, witness: 45 rows, 20 a page, page 2: next and last go to page 3
C15_Witness ==
  /\ pag.pc = "written"
  /\ pag.result[1].QueryCount = 45
  /\ pag.result[1].PerPage = 20
  /\ pag.result[1].Page = 2
  /\ \E i \in LinksOf("next") : TargetOf(i) = <<"3">>
  /\ \E i \in LinksOf("last") : TargetOf(i) = <<"3">>

-----------------------------------------------------------------------------
(* C16 *)

\* C16: WritePaginationHeaders emits first and prev, once each, exactly when
\* Page > 1; first goes to page 1 and prev to min(Page - 1, lastPage).
C16_FirstAndPrev ==
  pag.pc = "written" =>
    LET r == pag.result[1]
        lastPage == CeilDiv(r.QueryCount, r.PerPage)
        before == IF r.Page - 1 < lastPage THEN r.Page - 1 ELSE lastPage
    IN /\ Cardinality(LinksOf("first")) = (IF r.Page > 1 THEN 1 ELSE 0)
       /\ Cardinality(LinksOf("prev")) = (IF r.Page > 1 THEN 1 ELSE 0)
       /\ \A i \in LinksOf("first") : NumberValue(TargetOf(i)) = 1
       /\ \A i \in LinksOf("prev") : NumberValue(TargetOf(i)) = before

\* C16, witness: page 10 of a result of 3 pages: prev goes to page 3
C16_Witness ==
  /\ pag.pc = "written"
  /\ pag.result[1].Page = 10
  /\ pag.result[1].QueryCount = 5
  /\ pag.result[1].PerPage = 2
  /\ \E i \in LinksOf("prev") : TargetOf(i) = <<"3">>
  /\ \E i \in LinksOf("first") : TargetOf(i) = <<"1">>

-----------------------------------------------------------------------------
(* C17 *)

\* C17, as claimed: every prev link WritePaginationHeaders emits goes to a
\* page that is 1 or more, and NewPaginationRequest accepts the URL of the
\* link.
C17_PrevIsValidPage ==
  pag.pc = "written" =>
    \A i \in LinksOf("prev") :
      /\ NumberValue(TargetOf(i)) >= 1
      /\ NewPaginationRequest(pag.headers[1].Link[i].url).err = <<>>

-----------------------------------------------------------------------------
(* C18 *)

\* C18, as claimed: every link WritePaginationHeaders emits carries the
\* query of the request with one page value and with per_page set to the
\* PerPage of the result.
C18_LinksCarryPerPage ==
  pag.pc = "written" =>
    \A i \in DOMAIN pag.headers[1].Link :
      LET url == pag.headers[1].Link[i].url
      IN /\ Len(ValuesOf(url, pageArgName)) = 1
         /\ ValuesOf(url, perPageArgName) = <<Sprint(pag.result[1].PerPage)>>
         /\ ValuesOf(url, "q") = ValuesOf(pag.query, "q")

-----------------------------------------------------------------------------
(* C19 *)

\* C19: WritePaginationHeaders sets X-Total-Count to QueryCount whatever the
\* links are; with QueryCount = 0 and Page = 1 the Link header is empty and
\* X-Total-Count is 0.
C19_TotalCountAlways ==
  pag.pc = "written" =>
    /\ Len(pag.headers) = 1
    /\ IsNumber(pag.headers[1].XTotalCount)
    /\ NumberValue(pag.headers[1].XTotalCount) = pag.result[1].QueryCount
    /\ (pag.result[1].QueryCount = 0 /\ pag.result[1].Page = 1)
         => (pag.headers[1].Link = <<>> /\ pag.headers[1].XTotalCount = <<"0">>)

\* C19, witness: the first page of an empty result
C19_Witness ==
  /\ pag.pc = "written"
  /\ pag.result[1].QueryCount = 0
  /\ pag.result[1].Page = 1
  /\ pag.headers[1].Link = <<>>
  /\ pag.headers[1].XTotalCount = <<"0">>

(* C20 *)
\* C20: for every code c of the taxonomy, the envelope ErrorMessage(c), and
\* so the error a failing handler reports, carries ErrCode = c, a status
\* outside 200..299 and a non-empty message; no two distinct codes yield
\* the same ErrCode.
C20_EnvelopeCarriesItsCode ==
  (req.pc = "done" /\ req.err # 0) =>
    LET em == ErrorMessage(req.err)
    IN /\ em.ErrCode = req.err
       /\ req.body = <<[kind |-> "errmsg", code |-> req.err]>>
       /\ req.status = em.StatusCode
       /\ em.StatusCode \notin 200..299
       /\ em.Msg # ""
       /\ \A d \in ErrorCodes \ {req.err} : ErrorMessage(d).ErrCode # em.ErrCode

(* C21 *)
\* the request as the handler received it
AsReceived(r) == [IdleReq EXCEPT !.method = r.method, !.path = r.path]

\* C21: the response reportJSONError writes is the one it writes for the
\* same envelope without its BaseError: the same status, headers and body;
\* the body is the object of exactly errcode and msg, and the status is the
\* envelope's StatusCode.
C21_ResponseIgnoresBaseError ==
  (req.pc = "done" /\ req.err # 0) =>
    LET em == NewErrorMessageWithBase(req.err, req.base)
        plain == reportJSONError(AsReceived(req), [em EXCEPT !.BaseError = <<>>])
    IN /\ req.status = em.StatusCode
       /\ Len(req.json) = 1
       /\ DOMAIN req.json[1] = {"errcode", "msg"}
       /\ req.json[1].errcode = em.ErrCode
       /\ req.json[1].msg = em.Msg
       /\ req.status = plain.status
       /\ req.hdrs = plain.hdrs
       /\ req.body = plain.body
       /\ req.json = plain.json

\* C21, witness: an envelope with a root cause was reported, and logged
C21_Witness ==
  /\ req.pc = "done"
  /\ req.err = ErrorDbSave
  /\ req.base # <<>>
  /\ req.status = 500
  /\ \E i \in DOMAIN req.errlog : req.errlog[i] = [base |-> req.base[1]]
  /\ req.json = <<[errcode |-> ErrorDbSave, msg |-> ErrorMessage(ErrorDbSave).Msg]>>

(* C22 *)
\* C22: a list handler whose result holds an empty sequence in its wrapper
\* field, be it a zero-length slice or a nil one, is answered with the
\* body [] and never null.
C22_EmptyListIsBrackets ==
  (/\ req.pc = "done"
   /\ req.wrapper # ""
   /\ req.result # <<>>
   /\ req.result[1][req.wrapper].elems = <<>>)
    => (/\ Len(req.json) = 1
        /\ req.json[1] = [text |-> <<"[", "]">>]
        /\ req.status = 200)

(* C23 *)
\* the attempts dbInit has made
Attempts == Len(boot.outcomes)

\* C23: dbInit makes at most 10 attempts and none after one that succeeded;
\* it returns an error exactly when 10 attempts have failed, and then the
\* handle of the server is nil; when it returns nil the handle is open.
C23_DbInitAttempts ==
  /\ Attempts <= 10
  /\ \A k \in 1..(Attempts - 1) : boot.outcomes[k] = "failed"
  /\ boot.pc = "returned" =>
       /\ boot.ret # <<"nil">> <=>
            (Attempts = 10 /\ \A k \in 1..10 : boot.outcomes[k] = "failed")
       /\ boot.ret # <<"nil">> => Db = "nil"
       /\ boot.ret = <<"nil">> => (Db = "open" /\ boot.outcomes[Attempts] = "ok")

\* C23, witness: the tenth attempt left a handle that is not connected, and
\* dbInit has returned the error
C23_Witness ==
  /\ boot.pc = "returned"
  /\ Attempts = 10
  /\ boot.ret = <<"Unable to connect to the database">>
  /\ Db = "nil"

(* C24 *)
\* the elements of a slice, with the number of times each occurs
Occurrences(sl, e) == Cardinality({ i \in DOMAIN sl : sl[i] = e })

SameElements(a, b) ==
  /\ Len(a) = Len(b)
  /\ \A i \in DOMAIN a : Occurrences(a, a[i]) = Occurrences(b, a[i])

\* the tags of a string: its pieces between commas, trimmed, blank ones dropped
RECURSIVE NonBlank(_)
NonBlank(pieces) ==
  IF pieces = <<>> THEN <<>>
  ELSE IF TrimSpace(Head(pieces)) = <<>> THEN NonBlank(Tail(pieces))
  ELSE <<TrimSpace(Head(pieces))>> \o NonBlank(Tail(pieces))

TagsOf(str) == NonBlank(Split(str, ","))

ExpectedOfTest ==
  << <<"t", "a", "g", " ", "m", "i", "d", "d", "l", "e", " ", "s", "p",
       "a", "c", "e">>,
     <<"t", "e", "s", "t", "_", "t", "a", "g", "_", "1">>,
     <<"t", "e", "s", "t", "_", "t", "a", "g", "2">> >>

\* C24: StrToSlice returns the tags of its input, trimmed, inner spaces
\* kept, blank tags dropped, in any order; for the input of TestStrToSlice
\* these are the three tags the test expects; no element is empty.
C24_TagsTrimmedBlankDropped ==
  util.pc = "returned" =>
    /\ SameElements(util.got, TagsOf(util.input))
    /\ util.input = TestInput => SameElements(util.got, ExpectedOfTest)
    /\ \A i \in DOMAIN util.got : util.got[i] # <<>>

(* C25 *)
\* the response a request gets when it is served alone, on the router and
\* the server as they are
RECURSIVE RunAlone(_, _, _)
RunAlone(r, redirect, outcome) ==
  IF r.pc \in {"run", "unwind"} THEN RunAlone(advance(r, redirect, outcome), redirect, outcome)
  ELSE r

Alone(f) ==
  RunAlone(arrive([method |-> f.r.method, path |-> f.r.path, cred |-> f.r.cred,
                   tok |-> f.r.tok, redirect |-> f.redirect, outcome |-> f.outcome]),
           f.redirect, f.outcome)

Finished(f) == f.r.pc \in {"done", "crashed"}

\* a step that serves a request
ServingStep == \E k \in Flights : flights'[k] # flights[k]

C25_StepsLeaveRouter ==
  ServingStep =>
    UNCHANGED <<routes, muxRoutes, allowedOptions, corsMap, sortedREs>>

C25_SameAsAlone ==
  \A k \in Flights : Finished(flights[k]) => flights[k].r = Alone(flights[k])

\* C25: once the router is built, no step that serves a request, whatever
\* its outcome, writes the route table, corsMap, sortedREs or an
\* allowed-verb list; and under every interleaving a request is answered
\* as it is when it is served alone.
C25_RequestsOnlyReadRouter == [][C25_StepsLeaveRouter]_vars /\ []C25_SameAsAlone

\* C25, witness: an OPTIONS request was answered while a POST that will
\* panic was in the middle of its pipeline
C25_Witness ==
  /\ Finished(flights["a"])
  /\ flights["a"].r.method = "OPTIONS"
  /\ flights["a"].r.status = 200
  /\ flights["b"].r.pc = "run"
  /\ flights["b"].r.pos > 2
  /\ flights["b"].outcome = "panic"

(* C26 *)
\* whether the items, as a regular expression, describe the path from pos
\* to its end
RECURSIVE Covers(_, _, _)
Covers(items, path, pos) ==
  IF items = <<>> THEN pos = Len(path) + 1
  ELSE LET it == Head(items)
           rest == Tail(items)
       IN CASE it.kind = "wild" ->
                 \E n \in 1..Run(path, pos) : Covers(rest, path, pos + n)
            [] it.kind = "plus" ->
                 \E n \in 1..RunOf(path, pos, it.ch) : Covers(rest, path, pos + n)
            [] it.kind = "any" -> pos <= Len(path) /\ Covers(rest, path, pos + 1)
            [] OTHER -> pos <= Len(path) /\ path[pos] = it.ch /\ Covers(rest, path, pos + 1)

\* the positions in sortedREs of the patterns that match the entire path
EntireMatches(path) ==
  { i \in DOMAIN sortedREs : Covers(ParseRE(sortedREs[i]), path, 1) }

\* an OPTIONS handler has run for the request
OptionsHandled == req.pc \in {"done", "crashed"} /\ req.method = "OPTIONS" /\ req.route # 0

\* the answer is the envelope of ErrorNameNotFound and nothing of a route
NameNotFoundAnswer ==
  /\ req.status = 404
  /\ req.json = <<[errcode |-> 1004, msg |-> ErrorMessage(ErrorNameNotFound).Msg]>>
  /\ req.body = <<[kind |-> "errmsg", code |-> ErrorNameNotFound]>>
  /\ "Allow" \notin req.hdrs
  /\ req.allow = <<>>

\* C26: the OPTIONS handler selects a pattern only if the pattern matches
\* the entire path, which is then the first such pattern of the sorted
\* list; it answers with the envelope of ErrorNameNotFound (1004, 404, no
\* Allow header, no route metadata) exactly when no pattern of the list
\* matches the entire path.
C26_EntirePathOrNotFound ==
  OptionsHandled =>
    /\ NameNotFoundAnswer <=> EntireMatches(req.path) = {}
    /\ req.status = 200 =>
         \E i \in EntireMatches(req.path) :
           /\ \A j \in EntireMatches(req.path) : i <= j
           /\ req.body = <<[kind |-> "route", code |-> corsMap[sortedREs[i]]]>>

\* C26, witness: the path /c+ goes to the OPTIONS handler of the route /c+,
\* whose pattern matches /c only, and the answer is ErrorNameNotFound
C26_Witness ==
  /\ OptionsHandled
  /\ req.path = <<"/", "c", "+">>
  /\ NameNotFoundAnswer
  /\ \E i \in DOMAIN sortedREs : MatchEnd(ParseRE(sortedREs[i]), req.path, 1) = 3

\* a pattern that matches a beginning of the path only is passed over
C26_PrefixPassedOver ==
  /\ OptionsHandled
  /\ req.status = 200
  /\ \E i \in DOMAIN sortedREs :
       /\ MatchEnd(ParseRE(sortedREs[i]), req.path, 1) \in 2..Len(req.path)
       /\ \A j \in EntireMatches(req.path) : i < j

(* C27 *)
\* the page and the page size of the request whose query was run
AskedPage == Norm(Get(pag.query, pageArgName))

AskedPerPage ==
  IF Get(pag.query, perPageArgName) = <<>> THEN defaultPageSize
  ELSE LimitPerPage(ParseInt(Get(pag.query, perPageArgName)).val)

\* d % n, n a small number
RECURSIVE RemDigits(_, _, _)
RemDigits(d, n, acc) ==
  IF d = <<>> THEN acc ELSE RemDigits(Tail(d), n, (acc * 10 + DigitValue(Head(d))) % n)

\* C27: the page query runs with limit = PerPage and offset =
\* (max(Page, 1) - 1) * PerPage, the count with both removed; for every
\* accepted request, of any positive 64-bit page, the offset is not
\* negative and a multiple of PerPage.
C27_OffsetOfPage ==
  pag.pc = "queried" =>
    LET q == pag.sql[1]
    IN /\ q.limit = AskedPerPage
       /\ q.countLimit = -1
       /\ q.countOffset = -1
       /\ ~q.offset.neg
       /\ q.offset.digits = MulDigits(SubDigits(AskedPage, <<"1">>), AskedPerPage)
       /\ RemDigits(q.offset.digits, AskedPerPage, 0) = 0

(* C28 *)
\* C28: after any sequence of NewRouter calls, corsMap and sortedREs hold
\* only patterns that the table of the latest router declares, and every
\* index stored in corsMap is an index into that table.
C28_IndexOfLatestRouter ==
  routes # <<>> =>
    /\ \A p \in DOMAIN corsMap :
         /\ \E i \in 0..(Len(routes) - 1) : Declares(i, p)
         /\ corsMap[p] \in 0..(Len(routes) - 1)
    /\ \A k \in DOMAIN sortedREs :
         \E i \in 0..(Len(routes) - 1) : Declares(i, sortedREs[k])

(* C29 *)
\* C29, as claimed: an OPTIONS request that a synthesized OPTIONS handler
\* served has an answer (a fault raised while resolving the route was
\* recovered into the generic 500 response, nothing is left panicking) and
\* the access log holds one entry for it, with the name of its route.
C29_OptionsIsolatedAndLogged ==
  OptionsHandled =>
    /\ req.pc = "done"
    /\ ~req.panicking
    /\ req.status # 0
    /\ Len(req.log) = 1
    /\ req.log[1].name = routes[muxRoutes[req.route].routeIndex + 1].Name

\* C29, the faults alone: no OPTIONS request leaves its handler panicking
C29_OptionsFaultRecovered ==
  OptionsHandled => req.pc = "done" /\ ~req.panicking

(* C30 *)
\* C30: in every result PaginateQuery derives from an accepted request,
\* page 1 is found; and a page that is not found is page 2 or later and lies
\* after the last page, so the headers written for it hold first and prev,
\* once each, and neither next nor last.
C30_NotFoundIsPastTheEnd ==
  ResultMade =>
    LET r == pag.result[1]
        lastPage == CeilDiv(r.QueryCount, r.PerPage)
    IN /\ r.Page >= 1 /\ r.PerPage >= 1
       /\ r.Page = 1 => r.PageFound
       /\ ~r.PageFound => r.Page >= 2 /\ r.Page > lastPage
       /\ (pag.pc = "written" /\ ~r.PageFound) =>
            /\ Cardinality(LinksOf("first")) = 1
            /\ Cardinality(LinksOf("prev")) = 1
            /\ LinksOf("next") = {}
            /\ LinksOf("last") = {}

\* C30, witness: page 10 of 45 rows, 20 a page, is not found and its headers
\* hold first and prev alone; page 1 of an empty result is found
C30_Witness ==
  /\ pag.pc = "written"
  /\ pag.result[1].Page = 10
  /\ pag.result[1].QueryCount = 45
  /\ pag.result[1].PerPage = 20
  /\ ~pag.result[1].PageFound
  /\ { pag.headers[1].Link[i].rel : i \in DOMAIN pag.headers[1].Link } = {"first", "prev"}

\* C30, witness of the first page: page 1 of an empty result is found
C30_FirstPageOfNothing ==
  /\ ResultMade
  /\ pag.result[1].Page = 1
  /\ pag.result[1].QueryCount = 0
  /\ pag.result[1].PageFound

====
